---- MODULE Spec2Model ----
(***************************************************************************)
(* A model of crmsh's corosync.conf handling (src/crmsh/corosync.py):      *)
(* the configuration tree, ConfParser's path addressing and LinkManager;   *)
(* and of the migration of the file (src/crmsh/migration.py): the steps    *)
(* on the tree, the check before it and the writing of the files.          *)
(*                                                                         *)
(* The configuration tree ("dom") is a nested Python value.  Every node    *)
(* of it is a tagged record:                                               *)
(*    [t |-> "str",  v |-> a string]           a scalar                    *)
(*    [t |-> "dict", v |-> a function on keys] a section                   *)
(*    [t |-> "list", v |-> a sequence]         a repeated section or key   *)
(*    [t |-> "none", v |-> ""]                 Python's None               *)
(* A Python exception is the field err of an operation's result; the tree  *)
(* the result carries is the tree as the exception left it, so in-place    *)
(* mutation before a raise stays visible.                                  *)
(*                                                                         *)
(* dom is the tree in memory, last the record of the last call, steps the  *)
(* number of calls made.  fs is the files (the configuration file, its     *)
(* backup, the temporary file and the copies on the other members) and     *)
(* run the position and the locals of the operation that is writing them;  *)
(* the operations on the tree in memory leave both alone.                  *)
(***************************************************************************)
EXTENDS Integers, Sequences, FiniteSets, TLC

VARIABLES dom, last, steps, fs, run

vars == <<dom, last, steps, fs, run>>

(***************************************************************************)
(* Bounds of the model.                                                    *)
(***************************************************************************)
MaxIndex == 3

MaxSteps == 1

(***************************************************************************)
(* Python values.                                                          *)
(***************************************************************************)
Str(s) == [t |-> "str", v |-> s]

Dict(f) == [t |-> "dict", v |-> f]

List(s) == [t |-> "list", v |-> s]

None == [t |-> "none", v |-> ""]

EmptyMap == [k \in {} |-> None]

EmptyDict == Dict(EmptyMap)

IsDict(x) == x.t = "dict"

IsList(x) == x.t = "list"

IsStr(x) == x.t = "str"

\* key in node, for a dict node
Has(node, key) == key \in DOMAIN node.v

\* node[key] = value, for a dict node
Put(node, key, value) ==
    Dict([k \in (DOMAIN node.v) \cup {key} |-> IF k = key THEN value ELSE node.v[k]])

\* del node[key], for a dict node
Del(node, key) == Dict([k \in (DOMAIN node.v) \ {key} |-> node.v[k]])

\* li[index] = value with a zero-based index, for a list node
PutAt(li, index, value) == List([li.v EXCEPT ![index + 1] = value])

\* li.append(value)
ListAppend(li, value) == List(Append(li.v, value))

(***************************************************************************)
(* ConfParser                                                              *)
(***************************************************************************)
COROSYNC_KNOWN_SEC_NAMES_WITH_LIST == {<<"totem", "interface">>, <<"nodelist", "node">>}

\* raw_set_leaf with "index >= len(li)" for "index > len(li)"
raw_set_leaf_strict(node, key, value, index) ==
    IF ~IsDict(node) THEN [err |-> "TypeError", node |-> node]
    ELSE IF ~Has(node, key) THEN [err |-> "ok", node |-> Put(node, key, value)]
    ELSE LET cur == node.v[key] IN
         IF IsList(cur)
         THEN IF index >= Len(cur.v) THEN [err |-> "IndexError", node |-> node]
              ELSE [err |-> "ok", node |-> Put(node, key, PutAt(cur, index, value))]
         ELSE [err |-> "ok", node |-> Put(node, key, value)]

\* The last step of _raw_set: the assignment at the final key of the path.
raw_set_leaf(node, key, value, index) ==
    IF ~IsDict(node) THEN [err |-> "TypeError", node |-> node]
    ELSE IF ~Has(node, key) THEN [err |-> "ok", node |-> Put(node, key, value)]
    ELSE LET cur == node.v[key] IN
         IF IsList(cur)
         THEN IF index > Len(cur.v) THEN [err |-> "IndexError", node |-> node]
              ELSE IF index = Len(cur.v)
                   THEN [err |-> "ok", node |-> Put(node, key, ListAppend(cur, value))]
                   ELSE [err |-> "ok", node |-> Put(node, key, PutAt(cur, index, value))]
         ELSE [err |-> "ok", node |-> Put(node, key, value)]

RECURSIVE raw_set(_, _, _, _, _)
\* _raw_set from `node` on: `path` is what is left of the path, `path_stack`
\* the keys already passed.  The result's node is `node` after the in-place
\* mutation, also when the call raised.
raw_set(node, path, path_stack, value, index) ==
    IF Len(path) = 1 THEN raw_set_leaf(node, path[1], value, index)
    ELSE
    LET key == Head(path)
        stack == Append(path_stack, key)
        rest == Tail(path)
    IN  IF ~IsDict(node) THEN [err |-> "TypeError", node |-> node]
        ELSE IF ~Has(node, key)
        THEN LET r == raw_set(EmptyDict, rest, stack, value, index)
             IN  [err |-> r.err, node |-> Put(node, key, r.node)]
        ELSE LET cur == node.v[key] IN
             CASE IsDict(cur) ->
                    IF index > 0 /\ stack \in COROSYNC_KNOWN_SEC_NAMES_WITH_LIST
                    THEN IF index = 1
                         THEN LET r == raw_set(EmptyDict, rest, stack, value, index)
                              IN  [err |-> r.err,
                                   node |-> Put(node, key, List(<<cur, r.node>>))]
                         ELSE [err |-> "IndexError", node |-> node]
                    ELSE LET r == raw_set(cur, rest, stack, value, index)
                         IN  [err |-> r.err, node |-> Put(node, key, r.node)]
               [] IsList(cur) ->
                    IF index > Len(cur.v) THEN [err |-> "IndexError", node |-> node]
                    ELSE IF index = Len(cur.v)
                    THEN LET r == raw_set(EmptyDict, rest, stack, value, index)
                         IN  [err |-> r.err, node |-> Put(node, key, ListAppend(cur, r.node))]
                    ELSE LET r == raw_set(cur.v[index + 1], rest, stack, value, index)
                         IN  [err |-> r.err, node |-> Put(node, key, PutAt(cur, index, r.node))]
               [] OTHER ->
                    \* a scalar matches no case: the loop goes on with the same node
                    raw_set(node, rest, stack, value, index)

\* ConfParser.set: IndexError and KeyError become ValueError
set(d, path, value, index) ==
    LET r == raw_set(d, path, <<>>, value, index)
    IN  [err |-> IF r.err \in {"IndexError", "KeyError"} THEN "ValueError" ELSE r.err,
         dom |-> r.node]

RECURSIVE DomQuery_get(_, _, _)
\* DomQuery.get: descend along the path; a sequence on the way, or at the
\* end, is indexed by `index`.
DomQuery_get(node, path, index) ==
    IF ~IsDict(node) \/ ~Has(node, Head(path)) THEN [err |-> "KeyError", val |-> None]
    ELSE
    LET cur == node.v[Head(path)]
        sel == IF IsList(cur)
               THEN IF index < Len(cur.v) THEN [err |-> "ok", val |-> cur.v[index + 1]]
                    ELSE [err |-> "IndexError", val |-> None]
               ELSE [err |-> "ok", val |-> cur]
    IN  IF sel.err # "ok" \/ Len(path) = 1 THEN sel
        ELSE DomQuery_get(sel.val, Tail(path), index)

\* ConfParser.get: not found is None
get(d, path, index) ==
    LET r == DomQuery_get(d, path, index)
    IN  IF r.err \in {"KeyError", "IndexError"} THEN None ELSE r.val

\* transform_item without the test "if not isinstance(node, list)"
transform_item_always(d, item) ==
    LET q == DomQuery_get(d, SubSeq(item, 1, Len(item) - 1), 0)
        key == item[Len(item)]
    IN  IF q.err = "KeyError" THEN [err |-> "ok", dom |-> d]
        ELSE IF ~IsDict(q.val) THEN [err |-> "TypeError", dom |-> d]
        ELSE IF ~Has(q.val, key) THEN [err |-> "ok", dom |-> d]
        ELSE [err |-> "ok",
              dom |-> Put(d, item[1], Put(q.val, key, List(<<q.val.v[key]>>)))]

\* One round of the loop of transform_dom_with_list_schema, for one item
transform_item(d, item) ==
    LET q == DomQuery_get(d, SubSeq(item, 1, Len(item) - 1), 0)
        key == item[Len(item)]
    IN  IF q.err = "KeyError" THEN [err |-> "ok", dom |-> d]
        ELSE IF ~IsDict(q.val) THEN [err |-> "TypeError", dom |-> d]
        ELSE IF ~Has(q.val, key) THEN [err |-> "ok", dom |-> d]
        ELSE IF IsList(q.val.v[key]) THEN [err |-> "ok", dom |-> d]
        ELSE [err |-> "ok",
              dom |-> Put(d, item[1], Put(q.val, key, List(<<q.val.v[key]>>)))]

\* transform_dom_with_list_schema; `order` is the order in which the set
\* COROSYNC_KNOWN_SEC_NAMES_WITH_LIST is iterated
transform_dom_with_list_schema(d, order) ==
    LET r1 == transform_item(d, order[1])
    IN  IF r1.err # "ok" THEN r1 ELSE transform_item(r1.dom, order[2])

(***************************************************************************)
(* Trees a parsed corosync.conf gives.                                     *)
(***************************************************************************)
\* a dict from a set of <<key, value>> pairs with distinct keys
MkDict(pairs) ==
    Dict([k \in {p[1] : p \in pairs} |-> (CHOOSE p \in pairs : p[1] = k)[2]])

Iface0 == MkDict({<<"linknumber", Str("0")>>, <<"mcastport", Str("5405")>>})

Iface1 == MkDict({<<"linknumber", Str("1")>>, <<"knet_transport", Str("udp")>>})

Node1 == MkDict({<<"nodeid", Str("1")>>, <<"name", Str("alpha")>>, <<"ring0_addr", Str("10.0.0.1")>>})

Node2 == MkDict({<<"nodeid", Str("2")>>, <<"name", Str("beta")>>, <<"ring0_addr", Str("10.0.0.2")>>})

Absent == [t |-> "absent", v |-> ""]

\* what the key totem may hold
TotemTrees ==
    {Absent, Str("on"), MkDict({<<"version", Str("2")>>})}
    \cup {MkDict({<<"version", Str("2")>>, <<"interface", i>>}) :
            i \in {Iface0, Str("eth0"), List(<<Iface0>>), List(<<Iface0, Iface1>>)}}

\* what the key nodelist may hold
NodelistTrees ==
    {Absent}
    \cup {MkDict({<<"node", n>>}) : n \in {Node1, List(<<Node1>>), List(<<Node1, Node2>>)}}

\* a section with a scalar, a nested section, a repeated scalar and a
\* repeated section, none of them at a list-capable path
QuorumTree ==
    MkDict({<<"provider", Str("corosync_votequorum")>>,
            <<"device", MkDict({<<"model", Str("net")>>})>>,
            <<"tag", List(<<Str("a"), Str("b")>>)>>,
            <<"item", List(<<MkDict({<<"id", Str("1")>>})>>)>>})

MkTree(totem, nodelist) ==
    MkDict({<<"quorum", QuorumTree>>}
           \cup (IF totem = Absent THEN {} ELSE {<<"totem", totem>>})
           \cup (IF nodelist = Absent THEN {} ELSE {<<"nodelist", nodelist>>}))

GenericTrees == {MkTree(t, n) : t \in TotemTrees, n \in NodelistTrees}

Paths ==
    {<<"totem", "version">>, <<"totem", "interface">>, <<"totem", "interface", "linknumber">>,
     <<"nodelist", "node">>, <<"nodelist", "node", "name">>,
     <<"quorum", "provider">>, <<"quorum", "device", "model">>, <<"quorum", "provider", "x">>,
     <<"quorum", "tag">>, <<"quorum", "tag", "x">>, <<"quorum", "item", "id">>,
     <<"logging", "to_syslog">>}

Values == {Str("v1"), Str("v2")}

Indexes == 0 .. MaxIndex

Orders == {<<<<"totem", "interface">>, <<"nodelist", "node">>>>,
           <<<<"nodelist", "node">>, <<"totem", "interface">>>>}

(***************************************************************************)
(* The record of the last call: its arguments, the tree before it, the     *)
(* exception it raised ("ok" when none) and what it returned.              *)
(***************************************************************************)
NoCall ==
    [op |-> "none", path |-> <<>>, value |-> None, index |-> 0, order |-> <<>>,
     n |-> 0, options |-> EmptyMap, addrs |-> EmptyMap, env |-> EmptyMap,
     pre |-> EmptyDict, err |-> "ok", ret |-> None]

\* no file at all, and no operation writing one
NoFiles == [p \in {} |-> None]

Idle ==
    [op |-> "none", at |-> "idle", start |-> NoFiles, env |-> EmptyMap, order |-> <<>>,
     from |-> "", data |-> None, copies |-> EmptyMap, todo |-> <<>>, log |-> <<>>,
     err |-> "ok"]

(***************************************************************************)
(* ConfParser on one long-lived instance.                                  *)
(***************************************************************************)
InitTree ==
    /\ dom \in GenericTrees
    /\ last = NoCall
    /\ steps = 0
    /\ fs = NoFiles
    /\ run = Idle

Set(path, value, index) ==
    /\ steps < MaxSteps
    /\ LET r == set(dom, path, value, index)
       IN  /\ dom' = r.dom
           /\ last' = [NoCall EXCEPT !.op = "set", !.path = path, !.value = value,
                                     !.index = index, !.pre = dom, !.err = r.err]
    /\ steps' = steps + 1
    /\ UNCHANGED <<fs, run>>

Get(path, index) ==
    /\ steps < MaxSteps
    /\ last' = [NoCall EXCEPT !.op = "get", !.path = path, !.index = index,
                              !.pre = dom, !.ret = get(dom, path, index)]
    /\ steps' = steps + 1
    /\ UNCHANGED <<fs, run>>
    /\ UNCHANGED dom

Transform(order) ==
    /\ steps < MaxSteps
    /\ LET r == transform_dom_with_list_schema(dom, order)
       IN  /\ dom' = r.dom
           /\ last' = [NoCall EXCEPT !.op = "transform", !.order = order,
                                     !.pre = dom, !.err = r.err]
    /\ steps' = steps + 1
    /\ UNCHANGED <<fs, run>>

NextTree ==
    \/ \E path \in Paths, value \in Values, index \in Indexes : Set(path, value, index)
    \/ \E path \in Paths, index \in Indexes : Get(path, index)
    \/ \E order \in Orders : Transform(order)

SpecTree == InitTree /\ [][NextTree]_vars

(***************************************************************************)
(* Properties of ConfParser.                                               *)
(***************************************************************************)
RECURSIVE SeqOn(_, _)
\* The sequence a path addresses in tree d: the first list met when walking
\* the path through sections; None when the walk meets none.
SeqOn(node, path) ==
    IF path = <<>> \/ ~IsDict(node) \/ ~Has(node, Head(path)) THEN None
    ELSE LET cur == node.v[Head(path)]
         IN  IF IsList(cur) THEN cur ELSE SeqOn(cur, Tail(path))

\* The section path at which the walk of a path through sections stops
\* because the key holds a single section: <<>> when it meets none
RECURSIVE WalksThroughScalar(_, _)
WalksThroughScalar(node, path) ==
    /\ Len(path) > 1
    /\ IsDict(node)
    /\ Has(node, Head(path))
    /\ LET cur == node.v[Head(path)]
       IN  \/ IsStr(cur)
           \/ IsDict(cur) /\ WalksThroughScalar(cur, Tail(path))
           \/ IsList(cur) /\ \E i \in 1 .. Len(cur.v) : WalksThroughScalar(cur.v[i], Tail(path))

SetDone == last.op = "set" /\ last.err = "ok"

\* C1 (as claimed): whenever set(path, value, index) succeeds, get(path, index)
\* on the same instance returns the value just set.
C1_SetGetRoundTrip ==
    SetDone => get(dom, last.path, last.index) = last.value

\* C2: set addressing an existing sequence of length n appends exactly one
\* element when index = n, writes into element index when index < n and
\* fails with ValueError when index > n; a failed set leaves the tree as it was.
C2_SetOnSequence ==
    last.op = "set" =>
        /\ last.err # "ok" => dom = last.pre
        /\ LET li == SeqOn(last.pre, last.path)
               after == SeqOn(dom, last.path)
               n == Len(li.v)
               i == last.index
           IN  li # None =>
                 /\ i > n => last.err = "ValueError"
                 /\ i = n => /\ last.err = "ok"
                             /\ IsList(after)
                             /\ Len(after.v) = n + 1
                             /\ SubSeq(after.v, 1, n) = li.v
                             /\ get(dom, last.path, i) = last.value
                 /\ i < n /\ last.err = "ok" =>
                             /\ IsList(after)
                             /\ Len(after.v) = n
                             /\ \A j \in 1 .. n : j # i + 1 => after.v[j] = li.v[j]
                             /\ get(dom, last.path, i) = last.value
                 /\ i < n /\ last.err # "ok" => last.err = "TypeError"

C2_Witness_Append ==
    /\ SetDone
    /\ SeqOn(last.pre, last.path) # None
    /\ last.index = Len(SeqOn(last.pre, last.path).v)
    /\ Len(SeqOn(dom, last.path).v) = 3

C2_Witness ==
    /\ last.op = "set"
    /\ last.err = "ValueError"
    /\ SeqOn(last.pre, last.path) # None
    /\ last.index > Len(SeqOn(last.pre, last.path).v)
    /\ Len(SeqOn(last.pre, last.path).v) = 2

\* the lone section at a list-capable path that a set with this path passes
\* through: None when there is none
LoneListCapable(d, path) ==
    IF /\ Len(path) > 2
       /\ SubSeq(path, 1, 2) \in COROSYNC_KNOWN_SEC_NAMES_WITH_LIST
       /\ Has(d, path[1]) /\ IsDict(d.v[path[1]])
       /\ Has(d.v[path[1]], path[2]) /\ IsDict(d.v[path[1]].v[path[2]])
    THEN d.v[path[1]].v[path[2]]
    ELSE None

\* C3 (as claimed): a positive index is honoured only through an existing
\* sequence, or by promoting a lone node at a list-capable path with index 1
\* to <<old node, new node>>; every other use of a positive index is an error.
C3_PositiveIndex ==
    (last.op = "set" /\ last.index > 0) =>
        LET lone == LoneListCapable(last.pre, last.path)
        IN  \/ SeqOn(last.pre, last.path) # None
            \/ /\ lone # None
               /\ last.index = 1
               /\ last.err = "ok"
               /\ IsList(SeqOn(dom, last.path))
               /\ Len(SeqOn(dom, last.path).v) = 2
               /\ SeqOn(dom, last.path).v[1] = lone
               /\ get(dom, last.path, 1) = last.value
            \/ last.err # "ok"

\* C4: transform_dom_with_list_schema is idempotent; after it every present
\* list-capable key holds a sequence, a lone node has become a one-element
\* sequence, and no other key is changed.
ItemOf(d, item) ==
    IF Has(d, item[1]) /\ IsDict(d.v[item[1]]) /\ Has(d.v[item[1]], item[2])
    THEN d.v[item[1]].v[item[2]]
    ELSE Absent

Without(d, item) ==
    IF ItemOf(d, item) = Absent THEN d ELSE Put(d, item[1], Del(d.v[item[1]], item[2]))

WithoutListCapable(d) == Without(Without(d, <<"totem", "interface">>), <<"nodelist", "node">>)

C4_TransformIdempotent ==
    last.op = "transform" =>
        /\ transform_dom_with_list_schema(dom, last.order).dom = dom
        /\ last.err = "ok" =>
            /\ \A o \in Orders :
                 transform_dom_with_list_schema(dom, o) = [err |-> "ok", dom |-> dom]
            /\ \A item \in COROSYNC_KNOWN_SEC_NAMES_WITH_LIST :
                 LET old == ItemOf(last.pre, item)
                     new == ItemOf(dom, item)
                 IN  /\ old = Absent => new = Absent
                     /\ (old # Absent /\ IsList(old)) => new = old
                     /\ (old # Absent /\ ~IsList(old)) => new = List(<<old>>)
            /\ WithoutListCapable(dom) = WithoutListCapable(last.pre)

C4_Witness ==
    /\ last.op = "transform"
    /\ last.err = "ok"
    /\ IsDict(ItemOf(last.pre, <<"totem", "interface">>))
    /\ IsDict(ItemOf(last.pre, <<"nodelist", "node">>))
    /\ ItemOf(dom, <<"nodelist", "node">>) = List(<<ItemOf(last.pre, <<"nodelist", "node">>)>>)

(***************************************************************************)
(* Link and LinkManager                                                    *)
(*                                                                         *)
(* A Link is [linknumber, nodes, opts]: nodes is the sequence of           *)
(* LinkNode [nodeid, name, addr], opts maps the option fields that are not *)
(* None to their typed value (an integer, or a string for knet_transport). *)
(* An error is "ok" or the exception's type and message.                   *)
(***************************************************************************)
KNET_LINK_NUM_LIMIT == 8

\* dataclasses.fields(Link) without nodes, in declaration order
LINK_FIELDS ==
    <<"linknumber", "mcastport", "knet_link_priority", "knet_ping_interval",
      "knet_ping_timeout", "knet_ping_precision", "knet_pong_count", "knet_transport">>

\* LINK_OPTIONS_UPDATABLE without the exclusion of linknumber
LINK_OPTIONS_ALL == {LINK_FIELDS[i] : i \in 1 .. Len(LINK_FIELDS)}

LINK_OPTIONS_UPDATABLE ==
    {LINK_FIELDS[i] : i \in 1 .. Len(LINK_FIELDS)} \ {"linknumber"}

\* the fields typed int, or Optional[int]
INT_FIELDS == {LINK_FIELDS[i] : i \in 1 .. Len(LINK_FIELDS)} \ {"knet_transport"}

\* int(s) and str(n) on the strings and numbers of the model
NonCanonicalInts == {<<"05405", 5405>>, <<"01", 1>>, <<"07", 7>>}

IntRange == (-9 .. 9) \cup {5405, 5406}

\* int() as a table: the strings int() accepts, with their values
IntTable ==
    [s \in {ToString(n) : n \in IntRange} \cup {p[1] : p \in NonCanonicalInts} |->
        IF \E p \in NonCanonicalInts : p[1] = s
        THEN (CHOOSE p \in NonCanonicalInts : p[1] = s)[2]
        ELSE CHOOSE n \in IntRange : ToString(n) = s]

IsIntStr(s) == s \in DOMAIN IntTable

IntOf(s) == IntTable[s]

\* f'ring{i}_addr' as a table
RingKeys == [i \in IntRange |-> "ring" \o ToString(i) \o "_addr"]

RingKey(i) == RingKeys[i]

NewLink == [linknumber |-> -1, nodes |-> <<>>, opts |-> EmptyMap]

\* Link.__load_option: data maps names to Str values or None
load_option(link, data, field) ==
    IF field \notin DOMAIN data THEN [err |-> "ok", link |-> link]
    ELSE LET value == data[field] IN
         IF value = None
         THEN IF field = "linknumber"
              THEN [err |-> "AssertionError", link |-> link]
              ELSE [err |-> "ok",
                    link |-> [link EXCEPT !.opts =
                                [k \in (DOMAIN link.opts) \ {field} |-> link.opts[k]]]]
         ELSE IF field \in INT_FIELDS /\ ~IsIntStr(value.v)
         THEN [err |-> "ValueError: invalid literal for int()", link |-> link]
         ELSE LET typed == IF field \in INT_FIELDS THEN IntOf(value.v) ELSE value.v
              IN  IF field = "linknumber"
                  THEN [err |-> "ok", link |-> [link EXCEPT !.linknumber = typed]]
                  ELSE [err |-> "ok",
                        link |-> [link EXCEPT !.opts =
                                    [k \in (DOMAIN link.opts) \cup {field} |->
                                        IF k = field THEN typed ELSE link.opts[k]]]]

RECURSIVE load_fields(_, _, _)
load_fields(link, data, i) ==
    IF i > Len(LINK_FIELDS) THEN [err |-> "ok", link |-> link]
    ELSE LET r == load_option(link, data, LINK_FIELDS[i])
         IN  IF r.err # "ok" THEN r ELSE load_fields(r.link, data, i + 1)

\* Link.load_options
load_options(link, data) == load_fields(link, data, 1)

\* totem_transport that does not read the tree
totem_transport_fixed(config) == "knet"

\* LinkManager.totem_transport
totem_transport(config) ==
    IF Has(config, "totem") /\ Has(config.v["totem"], "transport")
    THEN config.v["totem"].v["transport"].v
    ELSE "knet"

RECURSIVE SortByNodeid(_)
\* list.sort(key=nodeid): a stable sort
SortByNodeid(s) ==
    IF s = <<>> THEN <<>>
    ELSE LET m == CHOOSE i \in 1 .. Len(s) :
                    /\ \A j \in 1 .. Len(s) : s[i].nodeid <= s[j].nodeid
                    /\ \A j \in 1 .. (i - 1) : s[j].nodeid # s[i].nodeid
         IN  <<s[m]>> \o SortByNodeid([j \in 1 .. (Len(s) - 1) |-> IF j < m THEN s[j] ELSE s[j + 1]])

\* ring_link that looks for ring{i}_addr in the last node and reads the
\* address of the nodes that have one
ring_link_last(nodelist, i) ==
    IF ~Has(nodelist[Len(nodelist)], RingKey(i)) THEN [err |-> "ok", link |-> None]
    ELSE [err |-> "ok",
          link |-> [linknumber |-> i,
                    nodes |-> SortByNodeid([k \in 1 .. Len(nodelist) |->
                                 [nodeid |-> IntOf(nodelist[k].v["nodeid"].v),
                                  name |-> nodelist[k].v["name"].v,
                                  addr |-> IF Has(nodelist[k], RingKey(i))
                                           THEN nodelist[k].v[RingKey(i)].v ELSE ""]]),
                    opts |-> EmptyMap]]

\* the first loop of links(): the link of ring index i, None when the first
\* node has no ring{i}_addr, KeyError when another node lacks it
ring_link(nodelist, i) ==
    IF ~Has(nodelist[1], RingKey(i)) THEN [err |-> "ok", link |-> None]
    ELSE IF \E k \in 1 .. Len(nodelist) : ~Has(nodelist[k], RingKey(i))
    THEN [err |-> "KeyError", link |-> None]
    ELSE [err |-> "ok",
          link |-> [linknumber |-> i,
                    nodes |-> SortByNodeid([k \in 1 .. Len(nodelist) |->
                                 [nodeid |-> IntOf(nodelist[k].v["nodeid"].v),
                                  name |-> nodelist[k].v["name"].v,
                                  addr |-> nodelist[k].v[RingKey(i)].v]]),
                    opts |-> EmptyMap]]

\* the merge of the interface records into the links, by linknumber
merge_options(links, interfaces) ==
    LET loaded == [k \in 1 .. Len(interfaces) |-> load_options(NewLink, interfaces[k].v)]
        \* the dict comprehension keeps the last record of each linknumber
        record(i) == LET k == CHOOSE k \in 1 .. Len(interfaces) :
                                 /\ loaded[k].link.linknumber = i
                                 /\ \A j \in (k + 1) .. Len(interfaces) :
                                        loaded[j].link.linknumber # i
                     IN  interfaces[k].v
        known(i) == \E k \in 1 .. Len(interfaces) : loaded[k].link.linknumber = i
    IN  IF \E k \in 1 .. Len(interfaces) : loaded[k].err # "ok"
        THEN [err |-> loaded[CHOOSE k \in 1 .. Len(interfaces) :
                               /\ loaded[k].err # "ok"
                               /\ \A j \in 1 .. (k - 1) : loaded[j].err = "ok"].err,
              links |-> <<>>]
        ELSE [err |-> "ok",
              links |-> [i \in 1 .. Len(links) |->
                           IF links[i] # None /\ known(i - 1)
                           THEN load_options(links[i], record(i - 1)).link
                           ELSE links[i]]]

\* LinkManager.links: [err, links]; links is what the call returns
links(config) ==
    IF totem_transport(config) # "knet" THEN [err |-> "AssertionError", links |-> <<>>]
    ELSE IF ~(Has(config, "nodelist") /\ Has(config.v["nodelist"], "node"))
    THEN [err |-> "ok", links |-> <<>>]
    ELSE
    LET node == config.v["nodelist"].v["node"]
        nodelist == node.v
        rings == [i \in 1 .. KNET_LINK_NUM_LIMIT |-> ring_link(nodelist, i - 1)]
    IN  IF \/ ~IsList(node)
           \/ nodelist = <<>>
           \/ \E k \in 1 .. Len(nodelist) : ~Has(nodelist[k], "nodeid")
           \/ \E k \in 1 .. Len(nodelist) : ~Has(nodelist[k], "name")
        THEN [err |-> "AssertionError", links |-> <<>>]
        ELSE IF \E k \in 1 .. Len(nodelist) : ~IsIntStr(nodelist[k].v["nodeid"].v)
        THEN [err |-> "ValueError: invalid literal for int()", links |-> <<>>]
        ELSE IF \E i \in 1 .. KNET_LINK_NUM_LIMIT : rings[i].err # "ok"
        THEN [err |-> "KeyError", links |-> <<>>]
        ELSE LET bare == [i \in 1 .. KNET_LINK_NUM_LIMIT |-> rings[i].link]
             IN  IF ~(Has(config, "totem") /\ Has(config.v["totem"], "interface"))
                 THEN [err |-> "ok", links |-> bare]
                 ELSE IF ~IsList(config.v["totem"].v["interface"])
                 THEN [err |-> "AssertionError", links |-> <<>>]
                 ELSE merge_options(bare, config.v["totem"].v["interface"].v)

\* li[i] of Python, with its negative indexes: [err, val]
PyIndex(li, i) ==
    IF i >= Len(li) \/ i < -Len(li) THEN [err |-> "IndexError", val |-> None]
    ELSE [err |-> "ok", val |-> li[(IF i < 0 THEN i + Len(li) ELSE i) + 1]]

\* "linknumber >= KNET_LINK_NUM_LIMIT or links[linknumber] is None", the
\* check update_link, update_node_addr and remove_link begin with
link_exists(ls, linknumber) ==
    IF linknumber >= KNET_LINK_NUM_LIMIT THEN "ValueError: Link does not exist"
    ELSE IF PyIndex(ls, linknumber).err # "ok" THEN "IndexError"
    ELSE IF PyIndex(ls, linknumber).val = None THEN "ValueError: Link does not exist"
    ELSE "ok"

\* the position of the first TRUE of a sequence of booleans, 0 when none
FirstIndex(flags) ==
    IF \E k \in 1 .. Len(flags) : flags[k]
    THEN CHOOSE k \in 1 .. Len(flags) : flags[k] /\ \A j \in 1 .. (k - 1) : ~flags[j]
    ELSE 0

\* s without its element at position k
RemoveAt(s, k) == [j \in 1 .. (Len(s) - 1) |-> IF j < k THEN s[j] ELSE s[j + 1]]

\* write_options without "interface.pop(k, None)" for an option that is None
write_options_keep(interface, link) ==
    Dict([k \in (DOMAIN interface.v) \cup DOMAIN link.opts |->
            IF k \in DOMAIN link.opts
            THEN Str(IF k \in INT_FIELDS THEN ToString(link.opts[k]) ELSE link.opts[k])
            ELSE interface.v[k]])

\* the loop of update_link over dataclasses.asdict(link): an option that is
\* None is popped from the interface record, any other is stored as str(v)
write_options(interface, link) ==
    Dict([k \in ((DOMAIN interface.v) \ (LINK_OPTIONS_UPDATABLE \ DOMAIN link.opts))
                    \cup DOMAIN link.opts |->
            IF k \in DOMAIN link.opts
            THEN Str(IF k \in INT_FIELDS THEN ToString(link.opts[k]) ELSE link.opts[k])
            ELSE interface.v[k]])

\* the end of update_link: the record goes when only linknumber is left in
\* it, else it is appended or stays where it was
place_interface(interfaces, interface_index, interface) ==
    IF Cardinality(DOMAIN interface.v) = 1
    THEN IF interface_index # 0 THEN RemoveAt(interfaces, interface_index) ELSE interfaces
    ELSE IF interface_index = 0 THEN Append(interfaces, interface)
         ELSE [interfaces EXCEPT ![interface_index] = interface]

\* "if not interfaces and 'interface' in totem: del ... else: totem['interface'] = interfaces"
store_interfaces(totem, interfaces) ==
    IF interfaces = <<>> /\ Has(totem, "interface")
    THEN Del(totem, "interface")
    ELSE Put(totem, "interface", List(interfaces))

\* LinkManager.update_link: [err, dom]
update_link(config, linknumber, options) ==
    LET l == links(config)
        ex == link_exists(l.links, linknumber)
        fail(e) == [err |-> e, dom |-> config]
    IN  IF l.err # "ok" THEN fail(l.err)
        ELSE IF ex # "ok" THEN fail(ex)
        ELSE IF "nodes" \in DOMAIN options THEN fail("ValueError: Unknown option nodes")
        ELSE IF \E o \in DOMAIN options : o \notin LINK_OPTIONS_UPDATABLE
        THEN fail("ValueError: Updating option is not supported")
        ELSE
        LET ld == load_options(PyIndex(l.links, linknumber).val, options)
            totem == config.v["totem"]
            has_interface == Has(totem, "interface")
            interfaces == IF has_interface THEN totem.v["interface"].v ELSE <<>>
            linknumber_str == ToString(linknumber)
            Matches(x) == Has(x, "linknumber") /\ x.v["linknumber"] = Str(linknumber_str)
            interface_index == FirstIndex([j \in 1 .. Len(interfaces) |-> Matches(interfaces[j])])
            interface == IF interface_index = 0
                         THEN Dict("linknumber" :> Str(linknumber_str))
                         ELSE interfaces[interface_index]
            placed == place_interface(interfaces, interface_index,
                                      write_options(interface, ld.link))
        IN  IF ld.err # "ok" THEN fail(ld.err)
            ELSE IF ~Has(config, "totem") THEN fail("AssertionError")
            ELSE IF has_interface /\ ~IsList(totem.v["interface"]) THEN fail("AssertionError")
            ELSE [err |-> "ok", dom |-> Put(config, "totem", store_interfaces(totem, placed))]

\* utils.IP(addr).ip_address: the canonical form of an address
AddressAliases == {<<"fd00:0::1", "fd00::1">>, <<"fd00:0:0::2", "fd00::2">>}

ip_address(addr) ==
    IF \E p \in AddressAliases : p[1] = addr
    THEN (CHOOSE p \in AddressAliases : p[1] = addr)[2]
    ELSE addr

\* link_addr_entries that reads the addresses of one slot only
link_addr_entries_one(ls, i) ==
    IF i > Len(ls) \/ ls[i] = None THEN <<>>
    ELSE SelectSeq([k \in 1 .. Len(ls[i].nodes) |->
                      [addr |-> ls[i].nodes[k].addr,
                       key |-> ip_address(ls[i].nodes[k].addr),
                       nodeid |-> ls[i].nodes[k].nodeid]],
                   LAMBDA e : e.addr # "")

RECURSIVE link_addr_entries(_, _)
\* the pairs existing_addr_node_map is built from, in the order of the dict
\* comprehension: links from i on, each link's nodes in order
link_addr_entries(ls, i) ==
    IF i > Len(ls) THEN <<>>
    ELSE (IF ls[i] = None THEN <<>>
          ELSE SelectSeq([k \in 1 .. Len(ls[i].nodes) |->
                            [addr |-> ls[i].nodes[k].addr,
                             key |-> ip_address(ls[i].nodes[k].addr),
                             nodeid |-> ls[i].nodes[k].nodeid]],
                         LAMBDA e : e.addr # ""))
         \o link_addr_entries(ls, i + 1)

\* existing_addr_node_map.get(key, None): the last entry wins; 0 stands for None
map_get(entries, key) ==
    IF \E k \in 1 .. Len(entries) : entries[k].key = key
    THEN entries[CHOOSE k \in 1 .. Len(entries) :
                    /\ entries[k].key = key
                    /\ \A j \in (k + 1) .. Len(entries) : entries[j].key # key].nodeid
    ELSE 0

\* upsert_loop without the test of existing_addr_node_map
upsert_loop_unchecked(entries, nodes, node_addresses, i) ==
    IF \E p \in i .. Len(node_addresses) :
          \A j \in 1 .. Len(nodes) : nodes[j].nodeid # node_addresses[p][1]
    THEN [err |-> "ValueError: Unknown nodeid", dup |-> <<>>]
    ELSE [err |-> "ok", dup |-> <<>>]

RECURSIVE upsert_loop(_, _, _, _)
\* the loop of __upsert_node_addr_impl over node_addresses.items(), from
\* pair i on: nodes is links[linknumber].nodes, entries the address map
upsert_loop(entries, nodes, node_addresses, i) ==
    IF i > Len(node_addresses) THEN [err |-> "ok", dup |-> <<>>]
    ELSE
    LET nodeid == node_addresses[i][1]
        addr == node_addresses[i][2]
        IsIt(node) == node.nodeid = nodeid
        found == FirstIndex([j \in 1 .. Len(nodes) |-> IsIt(nodes[j])])
        canonical_addr == ip_address(addr)
        existing == map_get(entries, canonical_addr)
    IN  IF found = 0 THEN [err |-> "ValueError: Unknown nodeid", dup |-> <<>>]
        ELSE IF /\ (nodes[found].addr = "" \/ ip_address(nodes[found].addr) # canonical_addr)
                /\ existing # 0
        THEN [err |-> "DuplicatedNodeAddressException", dup |-> <<addr, nodeid, existing>>]
        ELSE upsert_loop(Append(entries, [addr |-> addr, key |-> canonical_addr, nodeid |-> nodeid]),
                         [nodes EXCEPT ![found].addr = addr],
                         node_addresses, i + 1)

\* node_addresses.get(nodeid, None) on the sequence of (nodeid, addr) pairs
addr_of(node_addresses, nodeid) ==
    LET IsIt(p) == p[1] = nodeid
        k == FirstIndex([j \in 1 .. Len(node_addresses) |-> IsIt(node_addresses[j])])
    IN  IF k = 0 THEN None ELSE Str(node_addresses[k][2])

\* __upsert_node_addr_impl that writes each address as soon as its pair is read
upsert_node_addr_eager(config, ls, linknumber, node_addresses) ==
    LET r == upsert_loop(link_addr_entries(ls, 1), PyIndex(ls, linknumber).val.nodes,
                         node_addresses, 1)
        nodes == config.v["nodelist"].v["node"].v
        written == [k \in 1 .. Len(nodes) |->
                      LET updated_addr == addr_of(node_addresses, IntOf(nodes[k].v["nodeid"].v))
                      IN  IF updated_addr = None THEN nodes[k]
                          ELSE Put(nodes[k], RingKey(linknumber), updated_addr)]
    IN  [err |-> r.err,
         dom |-> Put(config, "nodelist", Put(config.v["nodelist"], "node", List(written))),
         dup |-> r.dup]

\* LinkManager.__upsert_node_addr_impl: [err, dom, dup]; node_addresses is
\* the mapping as its sequence of items
upsert_node_addr_impl(config, ls, linknumber, node_addresses) ==
    LET r == upsert_loop(link_addr_entries(ls, 1), PyIndex(ls, linknumber).val.nodes,
                         node_addresses, 1)
        nodes == config.v["nodelist"].v["node"].v
        written == [k \in 1 .. Len(nodes) |->
                      LET updated_addr == addr_of(node_addresses, IntOf(nodes[k].v["nodeid"].v))
                      IN  IF updated_addr = None THEN nodes[k]
                          ELSE Put(nodes[k], RingKey(linknumber), updated_addr)]
    IN  IF r.err # "ok" THEN [err |-> r.err, dom |-> config, dup |-> r.dup]
        ELSE [err |-> "ok",
              dom |-> Put(config, "nodelist", Put(config.v["nodelist"], "node", List(written))),
              dup |-> <<>>]

\* LinkManager.update_node_addr
update_node_addr(config, linknumber, node_addresses) ==
    LET l == links(config)
        ex == link_exists(l.links, linknumber)
    IN  IF l.err # "ok" THEN [err |-> l.err, dom |-> config, dup |-> <<>>]
        ELSE IF ex # "ok" THEN [err |-> ex, dom |-> config, dup |-> <<>>]
        ELSE upsert_node_addr_impl(config, l.links, linknumber, node_addresses)

\* delete_ring that stops after the first node
delete_ring_first(nodes, key) ==
    [err |-> IF Has(nodes[1], key) THEN "ok" ELSE "KeyError",
     nodes |-> [k \in 1 .. Len(nodes) |->
                  IF k = 1 /\ Has(nodes[1], key) THEN Del(nodes[k], key) ELSE nodes[k]]]

\* "for node in nodes: del node[f'ring{linknumber}_addr']": the nodes before
\* the first one without the key have lost it when KeyError is raised
delete_ring(nodes, key) ==
    LET Lacks(node) == ~Has(node, key)
        stop == FirstIndex([j \in 1 .. Len(nodes) |-> Lacks(nodes[j])])
    IN  [err |-> IF stop = 0 THEN "ok" ELSE "KeyError",
         nodes |-> [k \in 1 .. Len(nodes) |->
                      IF stop = 0 \/ k < stop THEN Del(nodes[k], key) ELSE nodes[k]]]

\* "[interface for interface in interfaces if int(interface['linknumber']) != linknumber]"
filter_interfaces(interfaces, linknumber) ==
    LET Bad(x) == ~Has(x, "linknumber") \/ ~IsIntStr(x.v["linknumber"].v)
        bad == FirstIndex([j \in 1 .. Len(interfaces) |-> Bad(interfaces[j])])
    IN  IF bad # 0
        THEN [err |-> IF Has(interfaces[bad], "linknumber")
                      THEN "ValueError: invalid literal for int()" ELSE "KeyError",
              interfaces |-> interfaces]
        ELSE [err |-> "ok",
              interfaces |-> SelectSeq(interfaces,
                                LAMBDA x : IntOf(x.v["linknumber"].v) # linknumber)]

\* count_links that counts the slots
count_links_all(ls) == Len(ls)

\* "sum(1 if link is not None else 0 for link in links)"
count_links(ls) == Cardinality({i \in 1 .. Len(ls) : ls[i] # None})

\* LinkManager.remove_link: [err, dom]
remove_link(config, linknumber) ==
    LET l == links(config)
        ex == link_exists(l.links, linknumber)
        present == count_links(l.links)
        nodelist == config.v["nodelist"]
        d == delete_ring(nodelist.v["node"].v, RingKey(linknumber))
        config1 == Put(config, "nodelist", Put(nodelist, "node", List(d.nodes)))
        totem == config1.v["totem"]
        f == filter_interfaces(totem.v["interface"].v, linknumber)
    IN  IF l.err # "ok" THEN [err |-> l.err, dom |-> config]
        ELSE IF ex # "ok" THEN [err |-> ex, dom |-> config]
        ELSE IF present <= 1 THEN [err |-> "ValueError: Cannot remove the last link", dom |-> config]
        ELSE IF d.err # "ok" THEN [err |-> d.err, dom |-> config1]
        ELSE IF ~Has(config1, "totem") THEN [err |-> "AssertionError", dom |-> config1]
        ELSE IF ~Has(totem, "interface") THEN [err |-> "ok", dom |-> config1]
        ELSE IF ~IsList(totem.v["interface"]) THEN [err |-> "AssertionError", dom |-> config1]
        ELSE IF f.err # "ok" THEN [err |-> f.err, dom |-> config1]
        ELSE [err |-> "ok",
              dom |-> Put(config1, "totem", Put(totem, "interface", List(f.interfaces)))]

\* next_free that takes the last free slot
next_free_last(ls) ==
    IF \E i \in 1 .. Len(ls) : ls[i] = None
    THEN (CHOOSE i \in 1 .. Len(ls) : ls[i] = None /\ \A j \in (i + 1) .. Len(ls) : ls[j] # None) - 1
    ELSE -1

\* "next((i for i, link in enumerate(links) if link is None), -1)"
next_free(ls) == FirstIndex([i \in 1 .. Len(ls) |-> ls[i] = None]) - 1

\* unspecified_nodes that stops at the first node without address
unspecified_first(nodes, node_addresses) ==
    LET all == SelectSeq([k \in 1 .. Len(nodes) |-> nodes[k].nodeid],
                         LAMBDA id : ~\E i \in 1 .. Len(node_addresses) : node_addresses[i][1] = id)
    IN  IF all = <<>> THEN <<>> ELSE <<all[1]>>

\* "[node.nodeid for node in nodes if node.nodeid not in node_addresses]"
unspecified_nodes(nodes, node_addresses) ==
    SelectSeq([k \in 1 .. Len(nodes) |-> nodes[k].nodeid],
              LAMBDA id : ~\E i \in 1 .. Len(node_addresses) : node_addresses[i][1] = id)

\* add_link after "self.__upsert_node_addr_impl(...)", which gave u, on the
\* link n: update_link on the tree that holds the new addresses
add_link_options(config, n, u, options) ==
    IF u.err # "ok"
    THEN [err |-> u.err, dom |-> config, n |-> n, missing |-> <<>>, dup |-> u.dup]
    ELSE update_link(u.dom, n, options) @@ [n |-> n, missing |-> <<>>, dup |-> <<>>]

\* add_link on the result l of self.links(): [err, dom, n, missing, dup]; n
\* is next_linknumber
add_link_to(config, l, node_addresses, options) ==
    LET next_linknumber == next_free(l.links)
        first == FirstIndex([i \in 1 .. Len(l.links) |-> l.links[i] # None])
        nodes == l.links[first].nodes
        missing == unspecified_nodes(nodes, node_addresses)
        blank == [linknumber |-> next_linknumber,
                  nodes |-> [k \in 1 .. Len(nodes) |-> [nodes[k] EXCEPT !.addr = ""]],
                  opts |-> EmptyMap]
        ls == [l.links EXCEPT ![next_linknumber + 1] = blank]
        fail(e) == [err |-> e, dom |-> config, n |-> next_linknumber,
                    missing |-> <<>>, dup |-> <<>>]
    IN  IF l.err # "ok" THEN fail(l.err)
        ELSE IF next_linknumber = -1 THEN fail("ValueError: Cannot add a new link")
        ELSE IF first = 0 THEN fail("StopIteration")
        ELSE IF missing # <<>> THEN [fail("MissingNodesException") EXCEPT !.missing = missing]
        ELSE add_link_options(config, next_linknumber,
                              upsert_node_addr_impl(config, ls, next_linknumber, node_addresses),
                              options)

\* LinkManager.add_link: [err, dom, n, missing, dup]
add_link(config, node_addresses, options) ==
    add_link_to(config, links(config), node_addresses, options)

(***************************************************************************)
(* Trees LinkManager.load_config_file gives (the list-capable sections     *)
(* are lists), and the arguments of the calls.                             *)
(***************************************************************************)
Addr(i, id) ==
    IF i = 1 THEN "fd00::" \o ToString(id)
    ELSE "10.0." \o ToString(i) \o "." \o ToString(id)

LNode(id, name, rings) ==
    MkDict({<<"nodeid", Str(ToString(id))>>, <<"name", Str(name)>>}
           \cup {<<RingKey(i), Str(Addr(i, id))>> : i \in rings})

AllRings == 0 .. (KNET_LINK_NUM_LIMIT - 1)

\* node lists whose entries define the same rings: one link; two links, the
\* nodes in the file in descending id; links 0 and 7
EvenNodeLists ==
    {<<LNode(1, "alpha", {0}), LNode(2, "beta", {0})>>,
     <<LNode(2, "beta", {0, 1}), LNode(1, "alpha", {0, 1})>>,
     <<LNode(1, "alpha", {0, 7}), LNode(2, "beta", {0, 7})>>}

\* the eight links
FullNodeList == <<LNode(1, "alpha", AllRings), LNode(2, "beta", AllRings)>>

\* entries that differ in their rings: the first lacks one, the second lacks one
UnevenNodeLists ==
    {<<LNode(1, "alpha", {0}), LNode(2, "beta", {0, 1})>>,
     <<LNode(1, "alpha", {0, 1}), LNode(2, "beta", {0})>>}

\* an entry without name
NamelessNodeList == <<Del(LNode(1, "alpha", {0}), "name"), LNode(2, "beta", {0})>>

Iface0nc == MkDict({<<"linknumber", Str("0")>>, <<"mcastport", Str("05405")>>,
                    <<"knet_link_priority", Str("1")>>})

InterfaceLists == {<<Iface0>>, <<Iface1, Iface0>>, <<Iface0nc>>}

\* the section totem: tr = "" is no declared transport, i = <<>> no interface
MkTotem(tr, i) ==
    MkDict((IF tr = "" THEN {} ELSE {<<"transport", Str(tr)>>})
           \cup (IF i = <<>> THEN {} ELSE {<<"interface", List(i)>>})
           \cup {<<"version", Str("2")>>})

MkNodelist(n) == MkDict({<<"node", List(n)>>})

MkLinkTree(totem, nodelist) ==
    MkDict((IF totem = Absent THEN {} ELSE {<<"totem", totem>>})
           \cup (IF nodelist = Absent THEN {} ELSE {<<"nodelist", nodelist>>}))

LinkTrees ==
    {MkLinkTree(MkTotem("knet", i), MkNodelist(n)) :
        i \in {<<>>} \cup InterfaceLists, n \in EvenNodeLists \cup UnevenNodeLists}
    \cup {MkLinkTree(MkTotem("", i), MkNodelist(n)) :
            i \in {<<>>, <<Iface1, Iface0>>},
            n \in {<<LNode(1, "alpha", {0}), LNode(2, "beta", {0})>>,
                   <<LNode(2, "beta", {0, 1}), LNode(1, "alpha", {0, 1})>>}}
    \cup {MkLinkTree(MkTotem(tr, i), Absent) : tr \in {"", "knet"}, i \in {<<>>, <<Iface0>>}}
    \cup {MkLinkTree(MkTotem("udp", i), MkNodelist(n)) :
            i \in {<<>>, <<Iface0>>}, n \in {<<LNode(1, "alpha", {0}), LNode(2, "beta", {0})>>}}
    \cup {MkLinkTree(Absent, MkNodelist(n)) :
            n \in {<<LNode(1, "alpha", {0}), LNode(2, "beta", {0})>>,
                   <<LNode(2, "beta", {0, 1}), LNode(1, "alpha", {0, 1})>>}}
    \cup {MkLinkTree(MkTotem("knet", <<Iface0>>), MkNodelist(n)) :
            n \in {FullNodeList, NamelessNodeList}}

\* a negative number, numbers of present and of free slots, the limit
LinkNumbers == {-1, 0, 1, KNET_LINK_NUM_LIMIT - 1, KNET_LINK_NUM_LIMIT}

\* options: dict[str, str|None]
OptionMaps ==
    {EmptyMap,
     "mcastport" :> Str("5406"),
     "mcastport" :> None,
     "mcastport" :> Str("05405"),
     "knet_transport" :> Str("sctp"),
     ("knet_transport" :> None) @@ ("mcastport" :> Str("5406")),
     ("knet_link_priority" :> None) @@ ("mcastport" :> None),
     "knet_link_priority" :> Str("high"),
     "nodes" :> Str("x"),
     ("mcastport" :> Str("5406")) @@ ("linknumber" :> Str("3")),
     ("mcastport" :> Str("5406")) @@ ("bogus" :> Str("1"))}

\* node_addresses: the items of a mapping nodeid -> addr, in its order
AddrMaps ==
    {<<>>,
     <<<<1, "10.0.9.1">>>>,
     <<<<1, "10.0.9.1">>, <<2, "10.0.9.2">>>>,
     <<<<3, "10.0.9.3">>>>,
     <<<<1, "10.0.9.1">>, <<3, "10.0.9.3">>>>,
     <<<<2, "10.0.0.1">>>>,
     <<<<1, "10.0.0.1">>>>,
     <<<<1, "10.0.0.2">>, <<2, "10.0.0.1">>>>,
     <<<<2, "fd00:0::1">>>>}

(***************************************************************************)
(* LinkManager on one instance.                                            *)
(***************************************************************************)
InitLinks ==
    /\ dom \in LinkTrees
    /\ last = NoCall
    /\ steps = 0
    /\ fs = NoFiles
    /\ run = Idle

Links ==
    /\ steps < MaxSteps
    /\ LET r == links(dom)
       IN  last' = [NoCall EXCEPT !.op = "links", !.pre = dom, !.err = r.err,
                                  !.ret = List(r.links)]
    /\ steps' = steps + 1
    /\ UNCHANGED <<fs, run>>
    /\ UNCHANGED dom

UpdateLink(linknumber, options) ==
    /\ steps < MaxSteps
    /\ LET r == update_link(dom, linknumber, options)
       IN  /\ dom' = r.dom
           /\ last' = [NoCall EXCEPT !.op = "update_link", !.n = linknumber,
                                     !.options = options, !.pre = dom, !.err = r.err]
    /\ steps' = steps + 1
    /\ UNCHANGED <<fs, run>>

UpdateNodeAddr(linknumber, node_addresses) ==
    /\ steps < MaxSteps
    /\ LET r == update_node_addr(dom, linknumber, node_addresses)
       IN  /\ dom' = r.dom
           /\ last' = [NoCall EXCEPT !.op = "update_node_addr", !.n = linknumber,
                                     !.addrs = node_addresses, !.pre = dom, !.err = r.err,
                                     !.ret = List(r.dup)]
    /\ steps' = steps + 1
    /\ UNCHANGED <<fs, run>>

RemoveLink(linknumber) ==
    /\ steps < MaxSteps
    /\ LET r == remove_link(dom, linknumber)
       IN  /\ dom' = r.dom
           /\ last' = [NoCall EXCEPT !.op = "remove_link", !.n = linknumber,
                                     !.pre = dom, !.err = r.err]
    /\ steps' = steps + 1
    /\ UNCHANGED <<fs, run>>

NextLinks ==
    \/ Links
    \/ \E n \in LinkNumbers, options \in OptionMaps : UpdateLink(n, options)
    \/ \E n \in LinkNumbers, a \in AddrMaps : UpdateNodeAddr(n, a)
    \/ \E n \in LinkNumbers : RemoveLink(n)

SpecLinks == InitLinks /\ [][NextLinks]_vars

(***************************************************************************)
(* Sequences of calls on one LinkManager, add_link among them.             *)
(***************************************************************************)
MaxCalls == 2

\* a node list without any ring
RinglessNodeList == <<LNode(1, "alpha", {}), LNode(2, "beta", {})>>

AddTrees ==
    {MkLinkTree(MkTotem("knet", <<>>), MkNodelist(<<LNode(1, "alpha", {0}), LNode(2, "beta", {0})>>)),
     MkLinkTree(MkTotem("knet", <<Iface1, Iface0>>),
                MkNodelist(<<LNode(2, "beta", {0, 1}), LNode(1, "alpha", {0, 1})>>)),
     MkLinkTree(MkTotem("knet", <<Iface0>>),
                MkNodelist(<<LNode(1, "alpha", {0, 7}), LNode(2, "beta", {0, 7})>>)),
     MkLinkTree(MkTotem("knet", <<Iface0>>), MkNodelist(FullNodeList)),
     MkLinkTree(MkTotem("knet", <<>>),
                MkNodelist(<<LNode(1, "alpha", {0}), LNode(2, "beta", {0, 1})>>)),
     MkLinkTree(MkTotem("knet", <<>>), MkNodelist(RinglessNodeList)),
     MkLinkTree(MkTotem("knet", <<>>), Absent),
     MkLinkTree(Absent, MkNodelist(<<LNode(1, "alpha", {0}), LNode(2, "beta", {0})>>))}

\* complete maps, maps that omit nodes, a map with an unknown node, a map with
\* the address of another node, a map that gives two nodes one address
AddAddrMaps ==
    {<<<<1, "10.0.9.1">>, <<2, "10.0.9.2">>>>,
     <<<<1, "10.0.9.1">>, <<2, "10.0.9.1">>>>,
     <<<<2, "10.0.8.2">>, <<1, "10.0.8.1">>>>,
     <<<<1, "10.0.9.1">>>>,
     <<>>,
     <<<<1, "10.0.9.1">>, <<2, "10.0.9.2">>, <<3, "10.0.9.3">>>>,
     <<<<1, "10.0.9.1">>, <<2, "10.0.0.1">>>>}

AddOptionMaps ==
    {EmptyMap,
     "mcastport" :> Str("5406"),
     "nodes" :> Str("x"),
     "knet_link_priority" :> Str("high")}

CallLinkNumbers == {-1, 0, 1, KNET_LINK_NUM_LIMIT - 1}

InitAdd ==
    /\ dom \in AddTrees
    /\ last = NoCall
    /\ steps = 0
    /\ fs = NoFiles
    /\ run = Idle

AddLink(node_addresses, options) ==
    /\ steps < MaxCalls
    /\ \E r \in {add_link(dom, node_addresses, options)} :
           /\ dom' = r.dom
           /\ last' = [NoCall EXCEPT !.op = "add_link", !.n = r.n, !.options = options,
                                     !.addrs = node_addresses, !.pre = dom, !.err = r.err,
                                     !.ret = List(r.missing \o r.dup)]
    /\ steps' = steps + 1
    /\ UNCHANGED <<fs, run>>

CallUpdateLink(linknumber, options) ==
    /\ steps < MaxCalls
    /\ LET r == update_link(dom, linknumber, options)
       IN  /\ dom' = r.dom
           /\ last' = [NoCall EXCEPT !.op = "update_link", !.n = linknumber,
                                     !.options = options, !.pre = dom, !.err = r.err]
    /\ steps' = steps + 1
    /\ UNCHANGED <<fs, run>>

CallUpdateNodeAddr(linknumber, node_addresses) ==
    /\ steps < MaxCalls
    /\ LET r == update_node_addr(dom, linknumber, node_addresses)
       IN  /\ dom' = r.dom
           /\ last' = [NoCall EXCEPT !.op = "update_node_addr", !.n = linknumber,
                                     !.addrs = node_addresses, !.pre = dom, !.err = r.err,
                                     !.ret = List(r.dup)]
    /\ steps' = steps + 1
    /\ UNCHANGED <<fs, run>>

CallRemoveLink(linknumber) ==
    /\ steps < MaxCalls
    /\ LET r == remove_link(dom, linknumber)
       IN  /\ dom' = r.dom
           /\ last' = [NoCall EXCEPT !.op = "remove_link", !.n = linknumber,
                                     !.pre = dom, !.err = r.err]
    /\ steps' = steps + 1
    /\ UNCHANGED <<fs, run>>

NextAdd ==
    \/ \E a \in AddAddrMaps, options \in AddOptionMaps : AddLink(a, options)
    \/ \E n \in {0, 1}, options \in {EmptyMap, "mcastport" :> Str("5406")} :
          CallUpdateLink(n, options)
    \/ \E n \in {0, 1}, a \in {<<<<1, "10.0.9.1">>, <<2, "10.0.9.2">>>>,
                              <<<<1, "10.0.9.1">>, <<2, "10.0.0.1">>>>,
                              <<<<1, "10.0.9.1">>, <<2, "10.0.9.1">>>>} :
          CallUpdateNodeAddr(n, a)
    \/ \E n \in CallLinkNumbers : CallRemoveLink(n)

SpecAdd == InitAdd /\ [][NextAdd]_vars

(***************************************************************************)
(* Properties of LinkManager.                                              *)
(***************************************************************************)
\* the node list of a tree, <<>> when it has none
NodesOf(d) ==
    IF Has(d, "nodelist") /\ Has(d.v["nodelist"], "node")
    THEN d.v["nodelist"].v["node"].v
    ELSE <<>>

\* the interface records of a tree, <<>> when it has none
InterfacesOf(d) ==
    IF Has(d, "totem") /\ Has(d.v["totem"], "interface")
    THEN d.v["totem"].v["interface"].v
    ELSE <<>>

RingNumbers == 0 .. 7

\* link n is present: n is a ring index and every node entry defines ring{n}_addr
PresentLink(d, n) ==
    /\ n \in RingNumbers
    /\ NodesOf(d) # <<>>
    /\ \A k \in 1 .. Len(NodesOf(d)) : Has(NodesOf(d)[k], RingKey(n))

HasNumber(x, n) ==
    Has(x, "linknumber") /\ IsIntStr(x.v["linknumber"].v) /\ IntOf(x.v["linknumber"].v) = n

\* the interface records of link n, and those of the other links, in order
RecordsOf(d, n) == SelectSeq(InterfacesOf(d), LAMBDA x : HasNumber(x, n))

OtherRecords(d, n) == SelectSeq(InterfacesOf(d), LAMBDA x : ~HasNumber(x, n))

LinksDone == last.op = "links" /\ last.err = "ok"

\* C5 (as claimed): links() returns exactly 8 slots on every tree on which it
\* returns, a tree without node list included.
C5_LinksEightSlots ==
    LinksDone => Len(last.ret.v) = 8

\* C6 (as claimed): for every node list, entries that differ in their rings
\* included, slot i of links() is None iff no node entry defines ring{i}_addr.
C6_SlotNoneIffNoNode ==
    (LinksDone /\ NodesOf(last.pre) # <<>>) =>
        \A i \in RingNumbers :
            (last.ret.v[i + 1] = None) <=>
                ~\E k \in 1 .. Len(NodesOf(last.pre)) : Has(NodesOf(last.pre)[k], RingKey(i))

SameRings(nodes) ==
    \A i \in RingNumbers, j, k \in 1 .. Len(nodes) :
        Has(nodes[j], RingKey(i)) <=> Has(nodes[k], RingKey(i))

\* C6 (amended): whenever links() returns on a tree with a node list, it
\* returns 8 slots and slot i is None iff the first node entry does not define
\* ring{i}_addr; when all entries define the same rings that is iff no entry
\* defines it.
C6_SlotNoneIffFirstNode ==
    (LinksDone /\ NodesOf(last.pre) # <<>>) =>
        /\ Len(last.ret.v) = 8
        /\ \A i \in RingNumbers :
            /\ (last.ret.v[i + 1] = None) <=> ~Has(NodesOf(last.pre)[1], RingKey(i))
            /\ last.ret.v[i + 1] # None => last.ret.v[i + 1].linknumber = i
            /\ SameRings(NodesOf(last.pre)) =>
                 ((last.ret.v[i + 1] = None) <=>
                    ~\E k \in 1 .. Len(NodesOf(last.pre)) : Has(NodesOf(last.pre)[k], RingKey(i)))

C6_Witness ==
    /\ LinksDone
    /\ Len(NodesOf(last.pre)) = 2
    /\ ~Has(NodesOf(last.pre)[1], RingKey(1))
    /\ Has(NodesOf(last.pre)[2], RingKey(1))
    /\ last.ret.v[1] # None
    /\ last.ret.v[2] = None

DeclaredTransport(d) ==
    IF Has(d, "totem") /\ Has(d.v["totem"], "transport")
    THEN d.v["totem"].v["transport"]
    ELSE Absent

\* C7 (as claimed): links() fails on every tree whose totem.transport is not
\* the value knet, whether it is another value or not declared at all.
C7_LinksNeedsKnet ==
    (last.op = "links" /\ DeclaredTransport(last.pre) # Str("knet")) => last.err # "ok"

\* C7 (amended): links() fails on every tree that declares a totem.transport
\* other than knet; a tree that declares no transport is read as knet.
C7_LinksNeedsDeclaredKnet ==
    last.op = "links" =>
        /\ DeclaredTransport(last.pre) \notin {Absent, Str("knet")} =>
             last.err = "AssertionError"
        /\ (DeclaredTransport(last.pre) = Absent /\ Has(last.pre, "totem")) =>
             [err |-> last.err, links |-> last.ret.v]
               = links(Put(last.pre, "totem",
                           Put(last.pre.v["totem"], "transport", Str("knet"))))

C7_Witness ==
    /\ last.op = "links"
    /\ DeclaredTransport(last.pre) = Str("udp")
    /\ NodesOf(last.pre) # <<>>
    /\ last.err = "AssertionError"

LinkCall == last.op \in {"update_link", "update_node_addr", "remove_link"}

\* C8 (as claimed): for every linknumber that is not the index of a present
\* link, update_link, update_node_addr and remove_link fail with "Link N does
\* not exist" and leave the tree unchanged.  (On trees links() reads.)
C8_AbsentLinkRejected ==
    (LinkCall /\ links(last.pre).err = "ok" /\ ~PresentLink(last.pre, last.n)) =>
        /\ last.err = "ValueError: Link does not exist"
        /\ dom = last.pre

UpdatableNames ==
    {"mcastport", "knet_link_priority", "knet_ping_interval", "knet_ping_timeout",
     "knet_ping_precision", "knet_pong_count", "knet_transport"}

UpdateOnPresent ==
    /\ last.op = "update_link"
    /\ links(last.pre).err = "ok"
    /\ PresentLink(last.pre, last.n)

\* C9: update_link on an existing link rejects, with an error, options that
\* contain the key nodes or a name outside the updatable set, and leaves the
\* tree unchanged.
C9_BadOptionRejected ==
    (UpdateOnPresent /\ \E o \in DOMAIN last.options : o \notin UpdatableNames) =>
        /\ last.err \in {"ValueError: Unknown option nodes",
                         "ValueError: Updating option is not supported"}
        /\ "nodes" \in DOMAIN last.options => last.err = "ValueError: Unknown option nodes"
        /\ dom = last.pre

C9_Witness ==
    /\ UpdateOnPresent
    /\ "linknumber" \in DOMAIN last.options
    /\ InterfacesOf(last.pre) # <<>>
    /\ last.err = "ValueError: Updating option is not supported"

\* the value of a field as the Link holds it, written back as a string
Typed(k, s) == IF k = "knet_transport" THEN s ELSE ToString(IntOf(s))

C10_Witness_Deleted ==
    /\ UpdateOnPresent
    /\ last.err = "ok"
    /\ RecordsOf(last.pre, last.n) # <<>>
    /\ RecordsOf(dom, last.n) = <<>>

\* C11 (as claimed): after a successful update_link, a call with no options
\* on a tree without interface section included, totem.interface is never
\* present as an empty list: when no link has a record the key is absent.
C11_NoEmptyInterfaceList ==
    (last.op = "update_link" /\ last.err = "ok") =>
        ~(Has(dom.v["totem"], "interface") /\ dom.v["totem"].v["interface"] = List(<<>>))

UpdateAddrOnPresent ==
    /\ last.op = "update_node_addr"
    /\ links(last.pre).err = "ok"
    /\ PresentLink(last.pre, last.n)

\* the nodeid of a node entry
IdOf(node) == IntOf(node.v["nodeid"].v)

\* the nodes other than nodeid that hold addr, in canonical form, on a present link
HoldersOf(d, addr, nodeid) ==
    {IdOf(NodesOf(d)[k]) : k \in {k \in 1 .. Len(NodesOf(d)) :
        /\ IdOf(NodesOf(d)[k]) # nodeid
        /\ \E j \in RingNumbers :
             /\ PresentLink(d, j)
             /\ ip_address(NodesOf(d)[k].v[RingKey(j)].v) = ip_address(addr)}}

KnownIds(d) == {IdOf(NodesOf(d)[k]) : k \in 1 .. Len(NodesOf(d))}

\* C12: update_node_addr on a present link, with pairs that all name nodes of
\* the link, fails with DuplicatedNodeAddressException when a pair gives an
\* address that a different node holds on a present link (compared in
\* canonical form); the exception carries the address, the node id of the pair
\* and the id of the node that holds the address.  Giving a node the address
\* it has on the link is accepted.
C12_DuplicateAddressRejected ==
    UpdateAddrOnPresent =>
        /\ ( /\ \A i \in 1 .. Len(last.addrs) : last.addrs[i][1] \in KnownIds(last.pre)
             /\ \E i \in 1 .. Len(last.addrs) :
                   HoldersOf(last.pre, last.addrs[i][2], last.addrs[i][1]) # {} )
           => /\ last.err = "DuplicatedNodeAddressException"
              /\ dom = last.pre
              /\ \E i \in 1 .. Len(last.addrs) :
                   /\ last.ret.v[1] = last.addrs[i][2]
                   /\ last.ret.v[2] = last.addrs[i][1]
                   /\ last.ret.v[3] \in HoldersOf(last.pre, last.addrs[i][2], last.addrs[i][1])
        /\ ( /\ Len(last.addrs) = 1
             /\ \E k \in 1 .. Len(NodesOf(last.pre)) :
                   /\ IdOf(NodesOf(last.pre)[k]) = last.addrs[1][1]
                   /\ ip_address(NodesOf(last.pre)[k].v[RingKey(last.n)].v)
                        = ip_address(last.addrs[1][2]) )
           => last.err = "ok"

\* a pair whose address, written differently, is the one another node holds
\* on another link is rejected
C12_Witness ==
    /\ UpdateAddrOnPresent
    /\ last.n = 0
    /\ last.addrs = <<<<2, "fd00:0::1">>>>
    /\ PresentLink(last.pre, 1)
    /\ last.err = "DuplicatedNodeAddressException"
    /\ last.ret = List(<<"fd00:0::1", 2, 1>>)

C12_Witness_Own ==
    /\ UpdateAddrOnPresent
    /\ last.addrs = <<<<1, "10.0.0.1">>>>
    /\ last.n = 0
    /\ last.err = "ok"

\* the node list after the pairs are applied to ring{n}_addr
WithAddrs(nodes, n, pairs) ==
    [k \in 1 .. Len(nodes) |->
        IF \E i \in 1 .. Len(pairs) : pairs[i][1] = IdOf(nodes[k])
        THEN Put(nodes[k], RingKey(n),
                 Str(pairs[CHOOSE i \in 1 .. Len(pairs) : pairs[i][1] = IdOf(nodes[k])][2]))
        ELSE nodes[k]]

\* C13: update_node_addr applies all its pairs or none: when it raises the
\* tree is the one before the call; when it returns, ring{n}_addr of every
\* node named by a pair is the address of the pair and nothing else changed.
C13_UpdateNodeAddrAllOrNothing ==
    last.op = "update_node_addr" =>
        IF last.err # "ok" THEN dom = last.pre
        ELSE /\ NodesOf(dom) = WithAddrs(NodesOf(last.pre), last.n, last.addrs)
             /\ Del(dom, "nodelist") = Del(last.pre, "nodelist")
             /\ Del(dom.v["nodelist"], "node") = Del(last.pre.v["nodelist"], "node")

\* the second pair names an unknown node after a first pair that is fine
C13_Witness ==
    /\ UpdateAddrOnPresent
    /\ last.addrs = <<<<1, "10.0.9.1">>, <<3, "10.0.9.3">>>>
    /\ last.err = "ValueError: Unknown nodeid"
    /\ dom = last.pre

C13_Witness_Applied ==
    /\ UpdateAddrOnPresent
    /\ Len(last.addrs) = 2
    /\ last.err = "ok"
    /\ dom # last.pre

\* slot i of links() is taken: the first node entry defines ring{i}_addr
Occupied(d, i) == NodesOf(d) # <<>> /\ Has(NodesOf(d)[1], RingKey(i))

AddDone == last.op = "add_link" /\ links(last.pre).err = "ok"

\* C14: a successful add_link gives the new link the lowest free linknumber:
\* a number in 0..7 whose slot was free while every lower slot was taken, and
\* afterwards every node defines its ring address and the links there were are
\* still there; when the 8 slots are taken add_link fails with the capacity
\* error and the tree is unchanged.
C14_AddLinkLowestFree ==
    AddDone =>
        /\ last.err = "ok" =>
             /\ last.n \in RingNumbers
             /\ ~Occupied(last.pre, last.n)
             /\ \A i \in RingNumbers : i < last.n => Occupied(last.pre, i)
             /\ PresentLink(dom, last.n)
             /\ \A i \in RingNumbers : Occupied(last.pre, i) => Occupied(dom, i)
             /\ \A k \in 1 .. Len(NodesOf(dom)) :
                  \E i \in 1 .. Len(last.addrs) :
                     /\ last.addrs[i][1] = IdOf(NodesOf(dom)[k])
                     /\ NodesOf(dom)[k].v[RingKey(last.n)] = Str(last.addrs[i][2])
        /\ (\A i \in RingNumbers : Occupied(last.pre, i)) =>
             /\ last.err = "ValueError: Cannot add a new link"
             /\ dom = last.pre

\* the new link fills the gap between links 0 and 7
C14_Witness ==
    /\ AddDone
    /\ last.err = "ok"
    /\ Occupied(last.pre, 0)
    /\ Occupied(last.pre, KNET_LINK_NUM_LIMIT - 1)
    /\ last.n = 1

C14_Witness_Full ==
    /\ AddDone
    /\ \A i \in RingNumbers : Occupied(last.pre, i)
    /\ last.err = "ValueError: Cannot add a new link"

\* the members of the node list that the address map of the call omits
Omitted == KnownIds(last.pre) \ {last.addrs[i][1] : i \in 1 .. Len(last.addrs)}

\* C15 (as claimed): add_link fails with MissingNodesException if and only if
\* the address map omits a member of the node list.
C15_MissingNodesIff ==
    AddDone => ((last.err = "MissingNodesException") <=> (Omitted # {}))

\* C15 (amended): on a tree with a link and a free slot, add_link fails with
\* MissingNodesException iff the address map omits a member of the node list;
\* the exception carries exactly the omitted ids and the tree is unchanged.
\* On any tree, MissingNodesException is raised only when a member is omitted.
C15_MissingNodesIffFreeSlot ==
    AddDone =>
        /\ ( /\ \E i \in RingNumbers : Occupied(last.pre, i)
             /\ \E i \in RingNumbers : ~Occupied(last.pre, i) )
           => ((last.err = "MissingNodesException") <=> (Omitted # {}))
        /\ last.err = "MissingNodesException" =>
             /\ Omitted # {}
             /\ {last.ret.v[i] : i \in 1 .. Len(last.ret.v)} = Omitted
             /\ Len(last.ret.v) = Cardinality(Omitted)
             /\ dom = last.pre

C15_Witness ==
    /\ AddDone
    /\ last.err = "MissingNodesException"
    /\ last.ret = List(<<1, 2>>)
    /\ Len(NodesOf(last.pre)) = 2

\* C16 (as claimed): whenever add_link raises, the tree is the tree before
\* the call.
C16_AddLinkAllOrNothing ==
    (last.op = "add_link" /\ last.err # "ok") => dom = last.pre

\* the number of links of a tree
LinkCount(d) == Cardinality({i \in RingNumbers : PresentLink(d, i)})

\* C17: remove_link on the only link of a tree fails with "Cannot remove the
\* last link" and leaves the tree unchanged; no call of add_link, remove_link,
\* update_link or update_node_addr, successful or failed, takes the last link
\* of a tree away.
C17_LastLinkStays ==
    /\ ( /\ last.op = "remove_link"
         /\ links(last.pre).err = "ok"
         /\ LinkCount(last.pre) = 1
         /\ PresentLink(last.pre, last.n) )
       => /\ last.err = "ValueError: Cannot remove the last link"
          /\ dom = last.pre
    /\ (last.op # "none" /\ LinkCount(last.pre) >= 1) => LinkCount(dom) >= 1

\* the second of two links was removed, then the removal of the last is refused
C17_Witness ==
    /\ steps = 2
    /\ last.op = "remove_link"
    /\ LinkCount(last.pre) = 1
    /\ PresentLink(last.pre, last.n)
    /\ last.err = "ValueError: Cannot remove the last link"
    /\ Len(InterfacesOf(last.pre)) = 1

\* C18: a successful remove_link(n) deletes ring{n}_addr from every node
\* entry and the interface records whose linknumber is n, and changes nothing
\* else: links() afterwards has slot n None and the other slots as before.
C18_RemoveLinkEffect ==
    (last.op = "remove_link" /\ last.err = "ok") =>
        /\ NodesOf(dom) = [k \in 1 .. Len(NodesOf(last.pre)) |->
                              Del(NodesOf(last.pre)[k], RingKey(last.n))]
        /\ \A k \in 1 .. Len(NodesOf(last.pre)) : Has(NodesOf(last.pre)[k], RingKey(last.n))
        /\ InterfacesOf(dom) = OtherRecords(last.pre, last.n)
        /\ Del(dom.v["totem"], "interface") = Del(last.pre.v["totem"], "interface")
        /\ Has(dom.v["totem"], "interface") <=> Has(last.pre.v["totem"], "interface")
        /\ Del(dom.v["nodelist"], "node") = Del(last.pre.v["nodelist"], "node")
        /\ DOMAIN dom.v = DOMAIN last.pre.v
        /\ \A key \in (DOMAIN dom.v) \ {"totem", "nodelist"} : dom.v[key] = last.pre.v[key]
        /\ links(dom).err = "ok"
        /\ \A i \in RingNumbers :
             links(dom).links[i + 1] =
                IF i = last.n THEN None ELSE links(last.pre).links[i + 1]

C18_Witness ==
    /\ last.op = "remove_link"
    /\ last.err = "ok"
    /\ RecordsOf(last.pre, last.n) # <<>>
    /\ OtherRecords(last.pre, last.n) # <<>>
    /\ LinkCount(dom) = 1

(***************************************************************************)
(* migration.py: the steps of migrate_corosync_conf_impl on the tree.      *)
(*                                                                         *)
(* What the steps read outside the tree is the environment of a call:      *)
(* cib is what opening constants.CIB_RAW_FILE and Cib.nodes() give, slurp   *)
(* what parallax.parallax_slurp gives (the copy of corosync.conf of each    *)
(* host, parsed).                                                          *)
(***************************************************************************)
\* an int held in the tree
IntVal(n) == [t |-> "int", v |-> n]

\* the value of a key of the tree, Absent when the tree has no such key
KeyOf(d, key) == IF Has(d, key) THEN d.v[key] ELSE Absent

UDP_ONLY == {"mcastaddr", "bindnetaddr", "broadcast", "ttl"}

\* migrate_interface that keeps ttl
migrate_interface_ttl(interface) ==
    LET kept == Dict([k \in (DOMAIN interface.v) \ ((UDP_ONLY \ {"ttl"}) \cup {"ringnumber"}) |->
                        interface.v[k]])
    IN  IF Has(interface, "ringnumber")
        THEN Put(kept, "linknumber", interface.v["ringnumber"])
        ELSE kept

\* the body of the loop over the interfaces, in migrate_udpu and in
\* migrate_multicast: the udp-only items are popped, ringnumber becomes linknumber
migrate_interface(interface) ==
    LET kept == Dict([k \in (DOMAIN interface.v) \ (UDP_ONLY \cup {"ringnumber"}) |->
                        interface.v[k]])
    IN  IF Has(interface, "ringnumber")
        THEN Put(kept, "linknumber", interface.v["ringnumber"])
        ELSE kept

\* "for interface in dom['totem']['interface']": [err, totem].  Over a dict
\* or a string the loop yields strings, which have no pop.
migrate_interfaces(totem) ==
    LET interface == totem.v["interface"]
    IN  IF IsList(interface)
        THEN [err |-> "ok",
              totem |-> Put(totem, "interface",
                            List([k \in 1 .. Len(interface.v) |->
                                    migrate_interface(interface.v[k])]))]
        ELSE IF (IsDict(interface) /\ DOMAIN interface.v = {}) \/ interface = Str("")
        THEN [err |-> "ok", totem |-> totem]
        ELSE [err |-> "AttributeError", totem |-> totem]

\* "if 'quorum' in dom: dom['quorum'].pop('expected_votes', None)": [err, dom]
pop_expected_votes(dom0) ==
    IF ~Has(dom0, "quorum") THEN [err |-> "ok", dom |-> dom0]
    ELSE IF ~IsDict(dom0.v["quorum"]) THEN [err |-> "AttributeError", dom |-> dom0]
    ELSE [err |-> "ok", dom |-> Put(dom0, "quorum", Del(dom0.v["quorum"], "expected_votes"))]

\* to_knet that leaves totem.transport as it is
to_knet_undeclared(totem) == Put(totem, "knet_compression_model", Str("none"))

\* "dom['totem']['transport'] = 'knet'; dom['totem']['knet_compression_model'] = 'none'"
to_knet(totem) == Put(Put(totem, "transport", Str("knet")), "knet_compression_model", Str("none"))

\* migrate_udpu: [err, dom]
migrate_udpu(dom0) ==
    LET totem == to_knet(dom0.v["totem"])
        m == IF Has(totem, "interface") THEN migrate_interfaces(totem)
             ELSE [err |-> "ok", totem |-> totem]
        dom1 == Put(dom0, "totem", m.totem)
    IN  IF m.err # "ok" THEN [err |-> m.err, dom |-> dom1]
        ELSE pop_expected_votes(dom1)

\* the entry of the node list for a member of the CIB, from the interfaces
\* of the member's copy of corosync.conf: [err, node]
node_entry(node, interfaces) ==
    IF \E i \in 1 .. Len(interfaces) : ~Has(interfaces[i], "bindnetaddr")
    THEN [err |-> "KeyError", node |-> None]
    ELSE [err |-> "ok",
          node |-> Dict([k \in {"nodeid", "name"} \cup {RingKey(i - 1) : i \in 1 .. Len(interfaces)} |->
                           IF k = "nodeid" THEN IntVal(node.node_id)
                           ELSE IF k = "name" THEN Str(node.uname)
                           ELSE interfaces[CHOOSE i \in 1 .. Len(interfaces) :
                                              RingKey(i - 1) = k].v["bindnetaddr"]])]

\* "for i, interface in enumerate(root['totem']['interface'])" on the
\* transformed copy `root` ([err, dom]) of a member: [err, node]
node_from_root(node, root) ==
    IF root.err # "ok" THEN [err |-> root.err, node |-> None]
    ELSE IF ~(Has(root.dom, "totem") /\ IsDict(root.dom.v["totem"])
                /\ Has(root.dom.v["totem"], "interface"))
    THEN [err |-> "KeyError", node |-> None]
    ELSE node_entry(node, root.dom.v["totem"].v["interface"].v)

\* the entry of the node list that migrate_multicast makes for a member of
\* the CIB from the member's copy of corosync.conf: [err, node]
node_from_config(node, configs, order) ==
    IF node.uname \notin DOMAIN configs THEN [err |-> "AssertionError", node |-> None]
    ELSE node_from_root(node, transform_dom_with_list_schema(configs[node.uname], order))

\* place_nodelist that keeps the entries made before the first failure
place_nodelist_partial(dom2, made) ==
    IF \E k \in 1 .. Len(made) : made[k].err # "ok"
    THEN [err |-> made[FirstIndex([k \in 1 .. Len(made) |-> made[k].err # "ok"])].err,
          dom |-> Put(dom2, "nodelist",
                      Dict("node" :> List([k \in 1 .. FirstIndex([j \in 1 .. Len(made) |->
                                                                    made[j].err # "ok"]) - 1 |->
                                              made[k].node])))]
    ELSE pop_expected_votes(
            Put(dom2, "nodelist", Dict("node" :> List([k \in 1 .. Len(made) |-> made[k].node]))))

\* the node list of migrate_multicast from the entries made for the members
\* of the CIB, and what follows it: [err, dom]
place_nodelist(dom2, made) ==
    IF \E k \in 1 .. Len(made) : made[k].err # "ok"
    THEN [err |-> made[FirstIndex([k \in 1 .. Len(made) |-> made[k].err # "ok"])].err, dom |-> dom2]
    ELSE pop_expected_votes(
            Put(dom2, "nodelist", Dict("node" :> List([k \in 1 .. Len(made) |-> made[k].node]))))

\* migrate_multicast after the loop over the interfaces, which gave m
\* ([err, totem]): [err, dom]
multicast_nodelist(dom0, m, env, order) ==
    IF m.err # "ok" THEN [err |-> m.err, dom |-> Put(dom0, "totem", m.totem)]
    ELSE IF env.cib.err # "ok" THEN [err |-> env.cib.err, dom |-> Put(dom0, "totem", m.totem)]
    ELSE IF Has(dom0, "nodelist") THEN [err |-> "AssertionError", dom |-> Put(dom0, "totem", m.totem)]
    ELSE IF env.slurp.err # "ok" THEN [err |-> env.slurp.err, dom |-> Put(dom0, "totem", m.totem)]
    ELSE place_nodelist(Put(dom0, "totem", m.totem),
                        [k \in 1 .. Len(env.cib.nodes) |->
                            node_from_config(env.cib.nodes[k], env.slurp.configs, order)])

\* migrate_multicast: [err, dom]
migrate_multicast(dom0, env, order) ==
    IF ~Has(dom0.v["totem"], "interface")
    THEN [err |-> "KeyError", dom |-> Put(dom0, "totem", to_knet(dom0.v["totem"]))]
    ELSE multicast_nodelist(dom0, migrate_interfaces(to_knet(dom0.v["totem"])), env, order)

\* migrate_transport: [err, dom]
migrate_transport(dom0, env, order) ==
    IF ~Has(dom0, "totem") THEN [err |-> "KeyError", dom |-> dom0]
    ELSE IF KeyOf(dom0.v["totem"], "transport") = Str("knet") THEN [err |-> "ok", dom |-> dom0]
    ELSE IF KeyOf(dom0.v["totem"], "transport") = Str("udpu") THEN migrate_udpu(dom0)
    \* dom['totem']['interface'][0]['bindnetaddr'] is read for its KeyError
    \* only; on an empty list it raises IndexError
    ELSE IF /\ KeyOf(dom0.v["totem"], "transport") # Str("udp")
            /\ KeyOf(dom0.v["totem"], "interface") = List(<<>>)
    THEN [err |-> "IndexError", dom |-> dom0]
    ELSE IF KeyOf(dom0.v["totem"], "transport") # Str("udp") /\ Has(dom0, "nodelist")
    THEN [err |-> "ok", dom |-> dom0]
    ELSE migrate_multicast(dom0, env, order)

\* migrate_crypto: [err, dom].  dict.get raises no KeyError, so the except
\* branch is reached only when totem is missing, and raises KeyError again.
migrate_crypto(dom0) ==
    IF ~Has(dom0, "totem") THEN [err |-> "KeyError", dom |-> dom0]
    ELSE IF Has(dom0.v["totem"], "crypto_hash") /\ dom0.v["totem"].v["crypto_hash"] = Str("sha1")
    THEN [err |-> "ok", dom |-> Put(dom0, "totem", Put(dom0.v["totem"], "crypto_hash", Str("sha256")))]
    ELSE [err |-> "ok", dom |-> dom0]

\* "int(node['nodeid'])": the tree holds the id as a string (DomParser) or
\* as an int (migrate_multicast)
nodeid_int(node) ==
    IF node.v["nodeid"].t = "int" THEN node.v["nodeid"].v ELSE IntOf(node.v["nodeid"].v)

\* what one round of the loop of populate_node_name raises, "ok" when it
\* names the entry
populate_error(node, cib_nodes) ==
    IF node.v["nodeid"].t = "str" /\ ~IsIntStr(node.v["nodeid"].v) THEN "ValueError"
    ELSE IF \A i \in 1 .. Len(cib_nodes) : cib_nodes[i].node_id # nodeid_int(node) THEN "KeyError"
    ELSE "ok"

\* "cib_nodes[node_id].uname": of members with one id the dict keeps the last
cib_uname(node_id, cib_nodes) ==
    cib_nodes[CHOOSE i \in 1 .. Len(cib_nodes) :
                /\ cib_nodes[i].node_id = node_id
                /\ \A j \in (i + 1) .. Len(cib_nodes) : cib_nodes[j].node_id # node_id].uname

\* populate_node_name: [err, nodes]; the entries before the one that raises
\* have their name written
populate_node_name(nodelist, cib) ==
    LET bad == FirstIndex([k \in 1 .. Len(nodelist) |-> populate_error(nodelist[k], cib.nodes) # "ok"])
    IN  IF cib.err # "ok" THEN [err |-> cib.err, nodes |-> nodelist]
        ELSE [err |-> IF bad = 0 THEN "ok" ELSE populate_error(nodelist[bad], cib.nodes),
              nodes |-> [k \in 1 .. Len(nodelist) |->
                            IF bad = 0 \/ k < bad
                            THEN Put(nodelist[k], "name",
                                     Str(cib_uname(nodeid_int(nodelist[k]), cib.nodes)))
                            ELSE nodelist[k]]]

\* drop_rrp_mode that carries any mode over to link_mode
drop_rrp_mode_any(dom0) ==
    IF ~Has(dom0, "totem") \/ ~Has(dom0.v["totem"], "rrp_mode") THEN dom0
    ELSE Put(dom0, "totem",
             Put(Del(dom0.v["totem"], "rrp_mode"), "link_mode", dom0.v["totem"].v["rrp_mode"]))

\* "rrp_mode = dom['totem']['rrp_mode']; del dom['totem']['rrp_mode']; if
\* rrp_mode == 'active': dom['totem']['link_mode'] = 'active'", the KeyError passed
drop_rrp_mode(dom0) ==
    IF ~Has(dom0, "totem") \/ ~Has(dom0.v["totem"], "rrp_mode") THEN dom0
    ELSE IF dom0.v["totem"].v["rrp_mode"] = Str("active")
    THEN Put(dom0, "totem", Put(Del(dom0.v["totem"], "rrp_mode"), "link_mode", Str("active")))
    ELSE Put(dom0, "totem", Del(dom0.v["totem"], "rrp_mode"))

\* the tree dom1 with the entries that populate_node_name wrote (p is [err, nodes])
name_nodes(dom1, p) ==
    [err |-> p.err,
     dom |-> Put(dom1, "nodelist", Put(dom1.v["nodelist"], "node", List(p.nodes)))]

\* migrate_rrp on a tree whose nodelist.node is a list: [err, dom]
migrate_rrp(dom0, env) ==
    IF ~Has(dom0, "nodelist") \/ ~Has(dom0.v["nodelist"], "node")
    THEN [err |-> "ok", dom |-> dom0]
    ELSE IF ~\E k \in 1 .. Len(NodesOf(dom0)) : Has(NodesOf(dom0)[k], "ring1_addr")
    THEN [err |-> "ok", dom |-> dom0]
    ELSE IF \E k \in 1 .. Len(NodesOf(dom0)) : ~Has(NodesOf(dom0)[k], "nodeid")
    THEN [err |-> "AssertionError", dom |-> drop_rrp_mode(dom0)]
    ELSE IF \A k \in 1 .. Len(NodesOf(dom0)) : Has(NodesOf(dom0)[k], "name")
    THEN [err |-> "ok", dom |-> drop_rrp_mode(dom0)]
    ELSE name_nodes(drop_rrp_mode(dom0), populate_node_name(NodesOf(dom0), env.cib))

\* migrate_corosync_conf_impl: [err, dom].  x, t and c are what the
\* transformation, migrate_transport and migrate_crypto leave; a step that
\* raises ends the call with the tree as that step left it.
migrate_corosync_conf_impl(config, env, order) ==
    IF ~Has(config, "totem") THEN [err |-> "AssertionError", dom |-> config]
    ELSE CHOOSE r \in
           {IF c.err # "ok" THEN c ELSE migrate_rrp(c.dom, env) : c \in
              {IF t.err # "ok" THEN t ELSE migrate_crypto(t.dom) : t \in
                 {IF x.err # "ok" THEN x ELSE migrate_transport(x.dom, env, order) : x \in
                    {transform_dom_with_list_schema(config, order)}}}} : TRUE

(***************************************************************************)
(* Trees to migrate, as DomParser gives them and as they are after         *)
(* transform_dom_with_list_schema, and the environments of a call.         *)
(***************************************************************************)
IfUdp0 == MkDict({<<"ringnumber", Str("0")>>, <<"bindnetaddr", Str("192.168.0.0")>>,
                  <<"mcastaddr", Str("239.0.0.1")>>, <<"mcastport", Str("5405")>>,
                  <<"ttl", Str("1")>>})

IfUdp1 == MkDict({<<"ringnumber", Str("1")>>, <<"bindnetaddr", Str("192.168.1.0")>>,
                  <<"broadcast", Str("yes")>>, <<"mcastport", Str("5407")>>})

\* an interface without ringnumber and without udp-only items
IfPlain == MkDict({<<"mcastport", Str("5405")>>})

MigInterfaces == {Absent, IfUdp0, List(<<IfUdp0>>), List(<<IfUdp0, IfUdp1>>), List(<<IfPlain>>)}

MigTransports == {Absent, Str("knet"), Str("udpu"), Str("udp")}

MigHashes == {Absent, Str("sha1"), Str("sha384")}

MigQuorums ==
    {Absent,
     MkDict({<<"provider", Str("corosync_votequorum")>>, <<"expected_votes", Str("2")>>})}

MigNodelists == {Absent, MkNodelist(<<Node1, Node2>>)}

MigTrees ==
    {MkDict({<<"totem", MkDict({<<"version", Str("2")>>}
                               \cup (IF tr = Absent THEN {} ELSE {<<"transport", tr>>})
                               \cup (IF i = Absent THEN {} ELSE {<<"interface", i>>})
                               \cup (IF h = Absent THEN {} ELSE {<<"crypto_hash", h>>}))>>}
            \cup (IF q = Absent THEN {} ELSE {<<"quorum", q>>})
            \cup (IF n = Absent THEN {} ELSE {<<"nodelist", n>>})) :
        tr \in MigTransports, i \in MigInterfaces, h \in MigHashes,
        q \in MigQuorums, n \in MigNodelists}
    \cup {MkDict({<<"nodelist", MkNodelist(<<Node1, Node2>>)>>})}

\* the copy of corosync.conf on a host: one interface, two, or one without bindnetaddr
PeerConfig(i) == MkDict({<<"totem", MkDict({<<"transport", Str("udp")>>, <<"interface", i>>})>>})

CibNodes == <<[node_id |-> 1, uname |-> "alpha"], [node_id |-> 2, uname |-> "beta"]>>

MigEnvs ==
    {[cib |-> [err |-> "ok", nodes |-> CibNodes],
      slurp |-> [err |-> "ok", configs |-> [u \in {"alpha", "beta"} |-> PeerConfig(i)]]] :
        i \in {IfUdp0, List(<<IfUdp0, IfUdp1>>)}}
    \cup {[cib |-> [err |-> "FileNotFoundError", nodes |-> <<>>],
           slurp |-> [err |-> "ok", configs |-> [u \in {"alpha", "beta"} |-> PeerConfig(IfUdp0)]]],
          [cib |-> [err |-> "ok", nodes |-> CibNodes],
           slurp |-> [err |-> "ValueError", configs |-> EmptyMap]],
          [cib |-> [err |-> "ok", nodes |-> CibNodes],
           slurp |-> [err |-> "ok",
                      configs |-> ("alpha" :> PeerConfig(IfUdp0)) @@ ("beta" :> PeerConfig(IfPlain))]],
          [cib |-> [err |-> "ok", nodes |-> CibNodes],
           slurp |-> [err |-> "ok", configs |-> ("alpha" :> PeerConfig(IfUdp0))]]}

\* node lists for migrate_rrp: two rings with the second name missing
\* (scenario D); the same with a first name that is not the member's uname;
\* all named; one ring; two rings on one node only; a nodeid missing; an id
\* that no member of the CIB has
RrpNodeLists ==
    {<<LNode(1, "alpha", {0, 1}), Del(LNode(2, "beta", {0, 1}), "name")>>,
     <<LNode(1, "node-a", {0, 1}), Del(LNode(2, "beta", {0, 1}), "name")>>,
     <<LNode(1, "node-a", {0, 1}), LNode(2, "beta", {0, 1})>>,
     <<Del(LNode(1, "alpha", {0}), "name"), LNode(2, "beta", {0})>>,
     <<Del(LNode(1, "alpha", {0, 1}), "name"), LNode(2, "beta", {0})>>,
     <<LNode(1, "alpha", {0, 1}), Del(Del(LNode(2, "beta", {0, 1}), "name"), "nodeid")>>,
     <<LNode(1, "alpha", {0, 1}), Del(LNode(3, "gamma", {0, 1}), "name")>>}

RrpTotems ==
    {MkDict({<<"version", Str("2")>>, <<"transport", Str("knet")>>} \cup m) :
        m \in {{}, {<<"rrp_mode", Str("active")>>}, {<<"rrp_mode", Str("passive")>>},
               {<<"rrp_mode", Str("passive")>>, <<"link_mode", Str("active")>>},
               {<<"rrp_mode", Str("active")>>, <<"crypto_hash", Str("sha1")>>}}}
    \cup {MkDict({<<"version", Str("2")>>, <<"transport", Str("udpu")>>,
                  <<"rrp_mode", Str("active")>>, <<"crypto_hash", Str("sha1")>>,
                  <<"interface", List(<<IfUdp0, IfUdp1>>)>>})}

RrpTrees ==
    {MkLinkTree(t, MkNodelist(n)) : t \in RrpTotems \cup {Absent}, n \in RrpNodeLists}

\* what populate_node_name reads: the CIB with both members, no CIB, the CIB
\* with the first member only
RrpEnvs ==
    {[cib |-> c, slurp |-> [err |-> "ValueError", configs |-> EmptyMap]] :
        c \in {[err |-> "ok", nodes |-> CibNodes],
               [err |-> "FileNotFoundError", nodes |-> <<>>],
               [err |-> "ok", nodes |-> <<CibNodes[1]>>]}}

InitMigrate ==
    /\ dom \in MigTrees \cup RrpTrees
    /\ last = NoCall
    /\ steps = 0
    /\ fs = NoFiles
    /\ run = Idle

MigrateTransport(env, order) ==
    /\ steps < MaxSteps
    /\ LET r == migrate_transport(dom, env, order)
       IN  /\ dom' = r.dom
           /\ last' = [NoCall EXCEPT !.op = "migrate_transport", !.env = env,
                                     !.order = order, !.pre = dom, !.err = r.err]
    /\ steps' = steps + 1
    /\ UNCHANGED <<fs, run>>

MigrateCrypto ==
    /\ steps < MaxSteps
    /\ LET r == migrate_crypto(dom)
       IN  /\ dom' = r.dom
           /\ last' = [NoCall EXCEPT !.op = "migrate_crypto", !.pre = dom, !.err = r.err]
    /\ steps' = steps + 1
    /\ UNCHANGED <<fs, run>>

MigrateRrp(env) ==
    /\ steps < MaxSteps
    /\ \E r \in {migrate_rrp(dom, env)} :
          /\ dom' = r.dom
          /\ last' = [NoCall EXCEPT !.op = "migrate_rrp", !.env = env, !.pre = dom, !.err = r.err]
    /\ steps' = steps + 1
    /\ UNCHANGED <<fs, run>>

MigrateImpl(env, order) ==
    /\ steps < MaxSteps
    /\ \E r \in {migrate_corosync_conf_impl(dom, env, order)} :
          /\ dom' = r.dom
          /\ last' = [NoCall EXCEPT !.op = "migrate_corosync_conf_impl", !.env = env,
                                    !.order = order, !.pre = dom, !.err = r.err]
    /\ steps' = steps + 1
    /\ UNCHANGED <<fs, run>>

NextMigrate ==
    \/ \E env \in MigEnvs, order \in Orders : MigrateTransport(env, order)
    \/ MigrateCrypto
    \/ \E env \in RrpEnvs : MigrateRrp(env)
    \/ \E env \in MigEnvs \cup RrpEnvs, order \in Orders : MigrateImpl(env, order)

SpecMigrate == InitMigrate /\ [][NextMigrate]_vars

(***************************************************************************)
(* Properties of the migration steps.                                      *)
(***************************************************************************)
HashOf(d) ==
    IF Has(d, "totem") /\ Has(d.v["totem"], "crypto_hash")
    THEN d.v["totem"].v["crypto_hash"]
    ELSE Absent

\* C19 (as claimed): after migrate_crypto, a crypto_hash that was not set is
\* sha256, one that was sha1 is sha256, any other value is as it was.
C19_CryptoHashExplicit ==
    (last.op = "migrate_crypto" /\ Has(last.pre, "totem")) =>
        /\ last.err = "ok"
        /\ HashOf(dom) = IF HashOf(last.pre) \in {Absent, Str("sha1")}
                         THEN Str("sha256")
                         ELSE HashOf(last.pre)

\* C20: migrate_transport on a tree that declares udpu (its interfaces a
\* list, as after transform_dom_with_list_schema, or absent) returns with
\* totem.transport knet; no interface entry has mcastaddr, bindnetaddr,
\* broadcast or ttl; an entry that had ringnumber k has linknumber k and no
\* ringnumber, and keeps its other items; quorum.expected_votes is absent;
\* the node list is as before.
C20_UdpuToKnet ==
    ( /\ last.op = "migrate_transport"
      /\ DeclaredTransport(last.pre) = Str("udpu")
      /\ (Has(last.pre.v["totem"], "interface") => IsList(last.pre.v["totem"].v["interface"])) )
    => /\ last.err = "ok"
       /\ DeclaredTransport(dom) = Str("knet")
       /\ Len(InterfacesOf(dom)) = Len(InterfacesOf(last.pre))
       /\ \A k \in 1 .. Len(InterfacesOf(dom)) :
            LET old == InterfacesOf(last.pre)[k]
                new == InterfacesOf(dom)[k]
            IN  /\ DOMAIN new.v \cap {"mcastaddr", "bindnetaddr", "broadcast", "ttl", "ringnumber"} = {}
                /\ Has(old, "ringnumber") =>
                     Has(new, "linknumber") /\ new.v["linknumber"] = old.v["ringnumber"]
                /\ \A key \in DOMAIN old.v :
                     key \notin {"mcastaddr", "bindnetaddr", "broadcast", "ttl", "ringnumber", "linknumber"}
                        => Has(new, key) /\ new.v[key] = old.v[key]
       /\ Has(dom, "quorum") <=> Has(last.pre, "quorum")
       /\ Has(dom, "quorum") => ~Has(dom.v["quorum"], "expected_votes")
       /\ KeyOf(dom, "nodelist") = KeyOf(last.pre, "nodelist")

\* scenario A: two interfaces with ringnumber 0 and 1 and udp-only items,
\* quorum.expected_votes set, a node list
C20_Witness ==
    /\ last.op = "migrate_transport"
    /\ DeclaredTransport(last.pre) = Str("udpu")
    /\ InterfacesOf(last.pre) = <<IfUdp0, IfUdp1>>
    /\ Has(last.pre, "quorum")
    /\ Has(last.pre.v["quorum"], "expected_votes")
    /\ NodesOf(last.pre) # <<>>
    /\ last.err = "ok"
    /\ InterfacesOf(dom) = <<MkDict({<<"linknumber", Str("0")>>, <<"mcastport", Str("5405")>>}),
                            MkDict({<<"linknumber", Str("1")>>, <<"mcastport", Str("5407")>>})>>

\* the interfaces of a member's copy of corosync.conf, as a sequence
PeerInterfaces(env, uname) ==
    LET i == env.slurp.configs[uname].v["totem"].v["interface"]
    IN  IF IsList(i) THEN i.v ELSE <<i>>

\* the CIB can be read, every member's copy was fetched, and every interface
\* of every copy has bindnetaddr
MembersAvailable(env) ==
    /\ env.cib.err = "ok"
    /\ env.slurp.err = "ok"
    /\ \A k \in 1 .. Len(env.cib.nodes) :
          /\ env.cib.nodes[k].uname \in DOMAIN env.slurp.configs
          /\ \A i \in 1 .. Len(PeerInterfaces(env, env.cib.nodes[k].uname)) :
                Has(PeerInterfaces(env, env.cib.nodes[k].uname)[i], "bindnetaddr")

\* migrate_transport was called on a tree that declares udp, has no node
\* list, and whose totem.interface is a list
UdpWithoutNodelist ==
    /\ last.op = "migrate_transport"
    /\ DeclaredTransport(last.pre) = Str("udp")
    /\ ~Has(last.pre, "nodelist")
    /\ Has(last.pre.v["totem"], "interface")
    /\ IsList(last.pre.v["totem"].v["interface"])

\* C21: migrate_transport on a tree that declares udp and has no node list.
\* When the CIB, every member's copy of the config and every bindnetaddr are
\* there, the call returns and the node list has one entry per member of the
\* CIB, in the CIB's order, holding the member's id, its name and, for the
\* i-th interface of the member's own copy, ring{i}_addr equal to that
\* interface's bindnetaddr, and nothing else.  Otherwise the call raises and
\* the tree has no node list.
C21_MulticastNodelist ==
    UdpWithoutNodelist =>
        IF MembersAvailable(last.env)
        THEN /\ last.err = "ok"
             /\ Len(NodesOf(dom)) = Len(last.env.cib.nodes)
             /\ \A k \in 1 .. Len(last.env.cib.nodes) :
                  LET member == last.env.cib.nodes[k]
                      entry == NodesOf(dom)[k]
                      ifs == PeerInterfaces(last.env, member.uname)
                  IN  /\ DOMAIN entry.v = {"nodeid", "name"} \cup {RingKey(i - 1) : i \in 1 .. Len(ifs)}
                      /\ entry.v["nodeid"] = IntVal(member.node_id)
                      /\ entry.v["name"] = Str(member.uname)
                      /\ \A i \in 1 .. Len(ifs) : entry.v[RingKey(i - 1)] = ifs[i].v["bindnetaddr"]
        ELSE /\ last.err # "ok"
             /\ ~Has(dom, "nodelist")

\* scenario B: two members, one interface in each copy
C21_Witness ==
    /\ UdpWithoutNodelist
    /\ last.err = "ok"
    /\ Len(NodesOf(dom)) = 2
    /\ NodesOf(dom)[1] = MkDict({<<"nodeid", IntVal(1)>>, <<"name", Str("alpha")>>,
                                 <<"ring0_addr", Str("192.168.0.0")>>})
    /\ NodesOf(dom)[2].v["name"] = Str("beta")

\* the second member's copy has no bindnetaddr: the first entry was made, the
\* call raised
C21_Witness_Partial ==
    /\ UdpWithoutNodelist
    /\ last.env.cib.err = "ok"
    /\ last.env.slurp.err = "ok"
    /\ ~MembersAvailable(last.env)
    /\ last.err = "KeyError"

\* the value of a key of the totem section, Absent when there is none
TotemKey(d, key) ==
    IF Has(d, "totem") /\ Has(d.v["totem"], key) THEN d.v["totem"].v[key] ELSE Absent

\* some node entry of the tree has ring1_addr
IsRrp(d) == \E k \in 1 .. Len(NodesOf(d)) : Has(NodesOf(d)[k], "ring1_addr")

\* the uname of the members of the CIB whose id is that of the node entry
UnamesFor(node, cib) ==
    {cib.nodes[i].uname : i \in {i \in 1 .. Len(cib.nodes) :
        /\ Has(node, "nodeid")
        /\ IsIntStr(node.v["nodeid"].v)
        /\ cib.nodes[i].node_id = IntOf(node.v["nodeid"].v)}}

\* C22: migrate_rrp on a tree with a node list.  When no node entry has
\* ring1_addr the call returns and the tree is as before.  When one has, and
\* every entry has a nodeid, and either every entry has a name or the CIB can
\* be read and has a member for every entry's id, the call returns; and
\* whenever it returns, totem.rrp_mode is absent, totem.link_mode is active
\* if rrp_mode was active and is as before otherwise, every entry that had no
\* name has the uname of the member of the CIB with its id, and the other
\* items of the entries and the rest of the tree are as before.
C22_RrpMigration ==
    (last.op = "migrate_rrp" /\ Has(last.pre, "nodelist")) =>
        IF ~IsRrp(last.pre)
        THEN last.err = "ok" /\ dom = last.pre
        ELSE /\ ( /\ \A k \in 1 .. Len(NodesOf(last.pre)) : Has(NodesOf(last.pre)[k], "nodeid")
                  /\ \/ \A k \in 1 .. Len(NodesOf(last.pre)) : Has(NodesOf(last.pre)[k], "name")
                     \/ /\ last.env.cib.err = "ok"
                        /\ \A k \in 1 .. Len(NodesOf(last.pre)) :
                              UnamesFor(NodesOf(last.pre)[k], last.env.cib) # {} )
                => last.err = "ok"
             /\ last.err = "ok" =>
                  /\ TotemKey(dom, "rrp_mode") = Absent
                  /\ TotemKey(dom, "link_mode") =
                        IF TotemKey(last.pre, "rrp_mode") = Str("active")
                        THEN Str("active")
                        ELSE TotemKey(last.pre, "link_mode")
                  /\ \A key \in {"version", "transport", "crypto_hash"} :
                        TotemKey(dom, key) = TotemKey(last.pre, key)
                  /\ Has(dom, "totem") <=> Has(last.pre, "totem")
                  /\ Len(NodesOf(dom)) = Len(NodesOf(last.pre))
                  /\ \A k \in 1 .. Len(NodesOf(last.pre)) :
                        LET old == NodesOf(last.pre)[k]
                            new == NodesOf(dom)[k]
                        IN  /\ ~Has(old, "name") =>
                                 /\ Has(new, "name")
                                 /\ new.v["name"] \in {Str(u) : u \in UnamesFor(old, last.env.cib)}
                            /\ Del(new, "name") = Del(old, "name")

\* scenario D: two rings, rrp_mode active, the second entry without name
C22_Witness ==
    /\ last.op = "migrate_rrp"
    /\ IsRrp(last.pre)
    /\ TotemKey(last.pre, "rrp_mode") = Str("active")
    /\ ~Has(NodesOf(last.pre)[2], "name")
    /\ last.err = "ok"
    /\ TotemKey(dom, "rrp_mode") = Absent
    /\ TotemKey(dom, "link_mode") = Str("active")
    /\ NodesOf(dom)[2].v["name"] = Str("beta")

\* rrp_mode passive is dropped, link_mode is not set
C22_Witness_Passive ==
    /\ last.op = "migrate_rrp"
    /\ IsRrp(last.pre)
    /\ TotemKey(last.pre, "rrp_mode") = Str("passive")
    /\ TotemKey(last.pre, "link_mode") = Absent
    /\ last.err = "ok"
    /\ TotemKey(dom, "rrp_mode") = Absent
    /\ TotemKey(dom, "link_mode") = Absent

\* C29 (as claimed): after migrate_rrp, every node entry that had a name has
\* the name it had.
C29_NamedEntriesKeepName ==
    last.op = "migrate_rrp" =>
        \A k \in 1 .. Len(NodesOf(last.pre)) :
            Has(NodesOf(last.pre)[k], "name") =>
                NodesOf(dom)[k].v["name"] = NodesOf(last.pre)[k].v["name"]

\* C23 (as claimed): migrate_transport on a tree that declares no transport
\* (its interfaces a list, or absent).  When the first interface entry has
\* bindnetaddr the call returns and the tree is as before; otherwise, when
\* the tree has no node list, the call does what migrate_multicast does; and
\* when it has a node list the call returns and the tree is as before.
C23_UndeclaredTransport ==
    ( /\ last.op = "migrate_transport"
      /\ Has(last.pre, "totem")
      /\ DeclaredTransport(last.pre) = Absent
      /\ Has(last.pre.v["totem"], "interface") => IsList(last.pre.v["totem"].v["interface"]) )
    => IF InterfacesOf(last.pre) # <<>> /\ Has(InterfacesOf(last.pre)[1], "bindnetaddr")
       THEN last.err = "ok" /\ dom = last.pre
       ELSE IF ~Has(last.pre, "nodelist")
       THEN [err |-> last.err, dom |-> dom] = migrate_multicast(last.pre, last.env, last.order)
       ELSE last.err = "ok" /\ dom = last.pre

\* C24: when migrate_corosync_conf_impl returns, calling it again on the
\* tree it left, whatever the CIB and the members' copies then are, returns
\* and leaves that tree as it is; and migrate_transport on a tree that
\* declares knet returns and leaves the tree as it is.
C24_ImplIdempotent ==
    /\ (last.op = "migrate_corosync_conf_impl" /\ last.err = "ok") =>
          \A env \in MigEnvs \cup RrpEnvs, order \in Orders :
              migrate_corosync_conf_impl(dom, env, order) = [err |-> "ok", dom |-> dom]
    /\ (last.op = "migrate_transport" /\ DeclaredTransport(last.pre) = Str("knet")) =>
          last.err = "ok" /\ dom = last.pre

\* a tree that declares udp, without node list: the first call rewrote it
C24_Witness ==
    /\ last.op = "migrate_corosync_conf_impl"
    /\ DeclaredTransport(last.pre) = Str("udp")
    /\ last.err = "ok"
    /\ DeclaredTransport(dom) = Str("knet")
    /\ Len(NodesOf(dom)) = 2

\* udpu, rrp_mode active, sha1 and a node without name: every step wrote
C24_Witness_AllSteps ==
    /\ last.op = "migrate_corosync_conf_impl"
    /\ DeclaredTransport(last.pre) = Str("udpu")
    /\ TotemKey(last.pre, "rrp_mode") = Str("active")
    /\ HashOf(last.pre) = Str("sha1")
    /\ \E k \in 1 .. Len(NodesOf(last.pre)) : ~Has(NodesOf(last.pre)[k], "name")
    /\ last.err = "ok"
    /\ DeclaredTransport(dom) = Str("knet")
    /\ TotemKey(dom, "link_mode") = Str("active")
    /\ HashOf(dom) = Str("sha256")

\* a tree that declares knet given to migrate_transport
C24_Witness_Knet ==
    /\ last.op = "migrate_transport"
    /\ DeclaredTransport(last.pre) = Str("knet")
    /\ InterfacesOf(last.pre) # <<>>

\* the canonical addresses that node entry k holds on the present links
LinkAddrs(d, k) ==
    {ip_address(NodesOf(d)[k].v[RingKey(j)].v) : j \in {j \in RingNumbers : PresentLink(d, j)}}

\* no canonical address is held by two node entries with different ids
UniqueAddrs(d) ==
    \A k1, k2 \in 1 .. Len(NodesOf(d)) :
        KeyOf(NodesOf(d)[k1], "nodeid") # KeyOf(NodesOf(d)[k2], "nodeid")
            => LinkAddrs(d, k1) \cap LinkAddrs(d, k2) = {}

\* the map gives one canonical address to two different nodes
SharedInMap(pairs) ==
    \E i, j \in 1 .. Len(pairs) :
        pairs[i][1] # pairs[j][1] /\ ip_address(pairs[i][2]) = ip_address(pairs[j][2])

\* C27: a call of add_link, update_node_addr, update_link or remove_link,
\* whether it returns or raises, on a tree in which no canonical address is
\* held by two different nodes leaves such a tree, so every tree reached
\* from such a tree by these calls is one; and a call of add_link or
\* update_node_addr whose map gives one address to two different nodes
\* raises.
C27_AddressesStayUnique ==
    /\ (last.op # "none" /\ UniqueAddrs(last.pre)) => UniqueAddrs(dom)
    /\ (last.op \in {"add_link", "update_node_addr"} /\ UniqueAddrs(last.pre)
          /\ SharedInMap(last.addrs)) => last.err # "ok"

\* one call gives 10.0.9.1 to node 1 and to node 2: the second pair is
\* refused for the address the first pair took
C27_Witness ==
    /\ last.op = "add_link"
    /\ UniqueAddrs(last.pre)
    /\ last.addrs = <<<<1, "10.0.9.1">>, <<2, "10.0.9.1">>>>
    /\ last.err = "DuplicatedNodeAddressException"
    /\ last.ret = List(<<"10.0.9.1", 2, 1>>)
    /\ UniqueAddrs(dom)

\* a second call, after an add_link that wrote a link
C27_Witness_Sequence ==
    /\ last.op \in {"update_node_addr", "remove_link"}
    /\ last.err = "ok"
    /\ \E j \in RingNumbers : PresentLink(last.pre, j) /\ j > 0
    /\ dom # last.pre
    /\ UniqueAddrs(dom)

\* the tree with every pair of the map written to ring{n}_addr
Applied(d, n, pairs) ==
    Put(d, "nodelist", Put(d.v["nodelist"], "node", List(WithAddrs(NodesOf(d), n, pairs))))

\* C28 (as claimed): update_node_addr on a present link, with pairs that all
\* name nodes of the link, on a tree without an address held by two nodes,
\* raises DuplicatedNodeAddressException only when the tree with the whole
\* map applied has an address held by two different nodes.
C28_RejectedOnlyIfShared ==
    ( /\ UpdateAddrOnPresent
      /\ UniqueAddrs(last.pre)
      /\ \A i \in 1 .. Len(last.addrs) : last.addrs[i][1] \in KnownIds(last.pre)
      /\ last.err = "DuplicatedNodeAddressException" )
    => ~UniqueAddrs(Applied(last.pre, last.n, last.addrs))


(***************************************************************************)
(* The pre-migration check (src/crmsh/migration.py: check, check_local,    *)
(* check_remote).  What a member answers is an SSHError or a ProcessResult *)
(* with a return code and a standard output; the standard output is the    *)
(* sequence of the JSON documents printed to it, a document the function   *)
(* of its keys.                                                            *)
(***************************************************************************)
SSHError == [kind |-> "SSHError", returncode |-> 0, stdout |-> <<>>]

ProcessResult(returncode, stdout) ==
    [kind |-> "ProcessResult", returncode |-> returncode, stdout |-> stdout]

\* CheckResultJsonHandler.json_result after the local checks
json_result(has_problems) == [pass |-> ~has_problems]

\* "crm cluster health sles16 --local --json=oneline" on a member: check with
\* --local and --json.  check_local ends with handler.end() and check calls
\* handler.end() again, so the document is printed twice; the status is 0 when
\* "pass" and 1 otherwise (itertools.repeat(0) gives remote_ret 0).
check_local_json(has_problems) ==
    ProcessResult(IF json_result(has_problems).pass THEN 0 ELSE 1,
                  <<json_result(has_problems), json_result(has_problems)>>)

\* json.loads(result.stdout.decode('utf-8')): one document, or JSONDecodeError
\* (nothing to read, or "Extra data" after the first document)
json_loads(stdout) ==
    IF Len(stdout) = 1 THEN [err |-> "ok", value |-> stdout[1]]
    ELSE [err |-> "JSONDecodeError", value |-> [k \in {} |-> FALSE]]

\* result.get("pass", False)
get_pass(result) == IF "pass" \in DOMAIN result THEN result.pass ELSE FALSE

\* one round of the loop of check_remote: ret after the member's result
check_remote_one(ret, result) ==
    IF result.kind = "SSHError" THEN 255
    ELSE IF result.returncode > 1 THEN result.returncode
    ELSE IF json_loads(result.stdout).err # "ok" THEN result.returncode
    ELSE IF ~get_pass(json_loads(result.stdout).value) THEN 1
    ELSE ret

\* check_remote: "ret = 0", the loop over prun_thread.result.items() in the
\* order of the dictionary, "yield ret"
RECURSIVE check_remote_from(_, _, _)
check_remote_from(results, i, ret) ==
    IF i > Len(results) THEN ret
    ELSE check_remote_from(results, i + 1, check_remote_one(ret, results[i]))

check_remote(results) == check_remote_from(results, 1, 0)

\* check(list()): the interactive handler, ret 1 when the local checks found a
\* problem, then "if remote_ret > ret: ret = remote_ret"
check(results, has_problems) ==
    IF check_remote(results) > (IF has_problems THEN 1 ELSE 0)
    THEN check_remote(results)
    ELSE IF has_problems THEN 1 ELSE 0


(***************************************************************************)
(* The files.  fs maps <<host, name>> to a file: its data (the tree that   *)
(* its text parses to, NoData for a text of length 0), its permission bits *)
(* and whether the data has reached the disk.  The operations that write   *)
(* corosync.conf are run one statement at a time, so that a reader of the  *)
(* path can read between two statements.                                   *)
(***************************************************************************)
NoData == Str("")

File(data, mode, synced) == [data |-> data, mode |-> mode, synced |-> synced]

Conf == <<"localhost", "corosync.conf">>

Bak == <<"localhost", "corosync.conf.bak">>

\* the temporary file of utils.open_atomic and the one of tmpfiles.create()
Tmp == <<"localhost", "corosync.conf.tmp">>

On(host) == <<host, "corosync.conf">>

\* utils.list_cluster_nodes_except_me()
Peers == <<"beta", "gamma">>

St(f, d, r) == [fs |-> f, dom |-> d, run |-> r]

Write(fs0, path, file) == [p \in DOMAIN fs0 \cup {path} |-> IF p = path THEN file ELSE fs0[p]]

\* utils.open_atomic(path, 'w', fsync=True): a new temporary file next to path
open_atomic_enter(fs0) == Write(fs0, Tmp, File(NoData, "0600", FALSE))

\* leaving the with block: the temporary file is flushed to the disk
open_atomic_fsync(fs0) == Write(fs0, Tmp, [fs0[Tmp] EXCEPT !.synced = TRUE])

\* then renamed over path
open_atomic_rename(fs0, path) ==
    [p \in (DOMAIN fs0 \ {Tmp}) \cup {path} |-> IF p = path THEN fs0[Tmp] ELSE fs0[p]]

\* shutil.copy(src, dst): the data and the permission bits
shutil_copy(fs0, src, dst) == Write(fs0, dst, File(fs0[src].data, fs0[src].mode, FALSE))

\* prun.pcopy_to_remote(conf_path, hosts, conf_path): the file as it is now on
\* every host whose copy succeeds (copies[host] = "None")
pcopy_to_remote(fs0, copies) ==
    [p \in DOMAIN fs0 \cup {On(h) : h \in {g \in DOMAIN copies : copies[g] = "None"}} |->
        IF p[2] = Conf[2] /\ p[1] \in DOMAIN copies /\ copies[p[1]] = "None"
        THEN File(fs0[Conf].data, fs0[Conf].mode, FALSE)
        ELSE fs0[p]]

At(st, at) == St(st.fs, st.dom, [st.run EXCEPT !.at = at])

Raise(st, err) == St(st.fs, st.dom, [st.run EXCEPT !.at = "raised", !.err = err])

\* "with utils.open_atomic(path, 'w', fsync=True, encoding='utf-8') as f:
\*      DomSerializer(dom, f); os.fchmod(f.fileno(), 0o644)"
\* of save, write_config_file and migrate_corosync_conf: the body of the with
\* block writes and sets the bits of the temporary file, the rename is last
write_atomic(st, after) ==
    CASE st.run.at = "tmp" -> At(St(open_atomic_enter(st.fs), st.dom, st.run), "serialize")
      [] st.run.at = "serialize" ->
            At(St(Write(st.fs, Tmp, [st.fs[Tmp] EXCEPT !.data = st.dom]), st.dom, st.run), "fchmod")
      [] st.run.at = "fchmod" ->
            At(St(Write(st.fs, Tmp, [st.fs[Tmp] EXCEPT !.mode = "0644"]), st.dom, st.run), "fsync")
      [] st.run.at = "fsync" -> At(St(open_atomic_fsync(st.fs), st.dom, st.run), "rename")
      [] st.run.at = "rename" -> At(St(open_atomic_rename(st.fs, Conf), st.dom, st.run), after)

WriteAts == {"tmp", "serialize", "fchmod", "fsync", "rename"}

\* ConfParser.save and LinkManager.write_config_file
save_step(st) == write_atomic(st, "done")


\* the loop over the results of pcopy_to_remote: "case None: pass", "case
\* prun.PRunError() as e: logger.error(...)"
copy_result(run0) ==
    IF run0.todo = <<>> THEN [run0 EXCEPT !.at = "done"]
    ELSE IF run0.copies[Head(run0.todo)] = "None" THEN [run0 EXCEPT !.todo = Tail(run0.todo)]
    ELSE [run0 EXCEPT !.todo = Tail(run0.todo), !.log = Append(run0.log, Head(run0.todo))]

\* what migrate_corosync_conf does after migrate_corosync_conf_impl returned r
after_impl_unordered(st, r) ==
    IF r.err # "ok" THEN Raise(St(shutil_copy(st.fs, Conf, Bak), r.dom, st.run), r.err)
    ELSE At(St(st.fs, r.dom, st.run), "copy")

after_impl(st, r) ==
    IF r.err # "ok" THEN Raise(St(st.fs, r.dom, st.run), r.err)
    ELSE At(St(st.fs, r.dom, st.run), "copy")

\* one statement of migrate_corosync_conf
migrate_corosync_conf_step(st) ==
    CASE st.run.at = "open" ->
            IF Conf \notin DOMAIN st.fs THEN Raise(st, "FileNotFoundError")
            ELSE At(St(st.fs, st.fs[Conf].data, st.run), "impl")
      [] st.run.at = "impl" ->
            after_impl(st, migrate_corosync_conf_impl(st.dom, st.run.env, st.run.order))
      [] st.run.at = "copy" -> At(St(shutil_copy(st.fs, Conf, Bak), st.dom, st.run), "tmp")
      [] st.run.at \in WriteAts -> write_atomic(st, "pcopy")
      [] st.run.at = "pcopy" ->
            St(pcopy_to_remote(st.fs, st.run.copies), st.dom,
               [st.run EXCEPT !.at = "results", !.todo = Peers])
      [] st.run.at = "results" -> St(st.fs, st.dom, copy_result(st.run))

\* one statement of pull_configuration(from_node): scp into a temporary file
\* (rc 0 when the host answers and has the file), "data = open(fname).read()",
\* the comparison of the hashes, "local_file = open(local_path, 'w')", then
\* "local_file.write(data); local_file.close()"
pull_configuration_step(st) ==
    CASE st.run.at = "scp" ->
            IF On(st.run.from) \notin DOMAIN st.fs THEN Raise(st, "ValueError")
            ELSE St(st.fs, st.dom,
                    [st.run EXCEPT !.at = "compare", !.data = st.fs[On(st.run.from)].data])
      [] st.run.at = "compare" ->
            IF Conf \in DOMAIN st.fs /\ st.fs[Conf].data = st.run.data
            THEN At(st, "done")
            ELSE At(st, "open_w")
      [] st.run.at = "open_w" ->
            At(St(Write(st.fs, Conf,
                        File(NoData, IF Conf \in DOMAIN st.fs THEN st.fs[Conf].mode ELSE "0644",
                             FALSE)),
                  st.dom, st.run), "write")
      [] st.run.at = "write" ->
            At(St(Write(st.fs, Conf, [st.fs[Conf] EXCEPT !.data = st.run.data]),
                  st.dom, st.run), "done")

\* the next statement of the operation that is running
step(st) ==
    CASE st.run.op = "save" -> save_step(st)
      [] st.run.op = "migrate_corosync_conf" -> migrate_corosync_conf_step(st)
      [] st.run.op = "pull_configuration" -> pull_configuration_step(st)

Ended(run0) == run0.at \in {"done", "raised"}

\* the operation run to its end
RECURSIVE finish(_)
finish(st) == IF Ended(st.run) THEN st ELSE finish(step(st))

StartMigrate(fs0, env, order, copies) ==
    [Idle EXCEPT !.op = "migrate_corosync_conf", !.at = "open", !.start = fs0,
                 !.env = env, !.order = order, !.copies = copies]

\* migrate(): [ret, err, st].  "if 0 != check(list()): raise MigrationFailure",
\* caught and answered with 1; else migrate_corosync_conf() and 0.  Another
\* exception of migrate_corosync_conf leaves migrate: err, and -1 for no value.
migrate(st, results, has_problems, env, order, copies) ==
    IF check(results, has_problems) # 0
    THEN [ret |-> 1, err |-> "ok", st |-> st]
    ELSE CHOOSE r \in
           {[ret |-> IF e.run.err = "ok" THEN 0 ELSE -1, err |-> e.run.err, st |-> e] :
               e \in {finish(St(st.fs, st.dom, StartMigrate(st.fs, env, order, copies)))}} : TRUE

(***************************************************************************)
(* The inputs: what the members answer to the check, the files at the      *)
(* start, what the copies to the members give.                             *)
(***************************************************************************)
\* unreachable; this version with and without problems; a status above 1; a
\* member that prints one document, passing, failing, or without "pass"
PeerResults ==
    {SSHError, check_local_json(FALSE), check_local_json(TRUE), ProcessResult(2, <<>>),
     ProcessResult(0, <<json_result(FALSE)>>), ProcessResult(1, <<json_result(TRUE)>>),
     ProcessResult(0, <<[k \in {"problems"} |-> FALSE]>>)}

\* prun_thread.result: one result for each of Peers, in the order of the dictionary
ResultLists == {<<a, b>> : a \in PeerResults, b \in PeerResults}

UdpTotem(tr) ==
    MkDict({<<"version", Str("2")>>, <<"transport", Str(tr)>>, <<"crypto_hash", Str("sha1")>>,
            <<"interface", IfUdp0>>})

\* a udp file without node list, a udpu file with one, a knet file with
\* rrp_mode and two rings, a file without totem
FileTrees ==
    {MkDict({<<"totem", UdpTotem("udp")>>}),
     MkDict({<<"totem", UdpTotem("udpu")>>, <<"nodelist", MkNodelist(<<Node1, Node2>>)>>}),
     MkLinkTree(MkDict({<<"version", Str("2")>>, <<"transport", Str("knet")>>,
                        <<"rrp_mode", Str("passive")>>}),
                MkNodelist(<<LNode(1, "alpha", {0, 1}), Del(LNode(2, "beta", {0, 1}), "name")>>)),
     MkDict({<<"nodelist", MkNodelist(<<Node1, Node2>>)>>})}

\* the file of the member beta: this one's, or another
PeerTrees == {MkDict({<<"totem", UdpTotem("udp")>>}), MkDict({<<"totem", UdpTotem("udpu")>>})}

FileSystems ==
    {(Conf :> File(t, m, TRUE)) @@ (On("beta") :> File(u, "0644", TRUE)) :
        t \in FileTrees, u \in PeerTrees, m \in {"0644", "0600"}}

\* the CIB and the members' files that migrate_corosync_conf_impl reads
FileEnvs ==
    {[cib |-> c,
      slurp |-> [err |-> "ok", configs |-> [u \in {"alpha", "beta"} |-> PeerConfig(IfUdp0)]]] :
        c \in {[err |-> "ok", nodes |-> CibNodes], [err |-> "FileNotFoundError", nodes |-> <<>>]}}

\* what pcopy_to_remote answers for each member
CopyResults == [{Peers[i] : i \in 1 .. Len(Peers)} -> {"None", "PRunError"}]

\* trees that save writes
SaveTrees == {MkDict({<<"totem", UdpTotem("udpu")>>}), MkLinkTree(Absent, MkNodelist(<<Node1>>))}

(***************************************************************************)
(* check and migrate, each as one call.                                    *)
(***************************************************************************)
InitCheck ==
    /\ dom = EmptyDict
    /\ last = NoCall
    /\ steps = 0
    /\ fs \in FileSystems
    /\ run = Idle

CallCheck(results, has_problems) ==
    /\ steps < MaxSteps
    /\ last' = [NoCall EXCEPT !.op = "check",
                              !.env = [results |-> results, has_problems |-> has_problems],
                              !.ret = check(results, has_problems)]
    /\ steps' = steps + 1
    /\ UNCHANGED <<dom, fs, run>>

CallMigrate(results, has_problems, env, order, copies) ==
    /\ steps < MaxSteps
    /\ \E r \in {migrate(St(fs, dom, Idle), results, has_problems, env, order, copies)} :
          /\ fs' = r.st.fs
          /\ dom' = r.st.dom
          /\ run' = r.st.run
          /\ last' = [NoCall EXCEPT !.op = "migrate",
                                    !.env = [results |-> results, has_problems |-> has_problems],
                                    !.err = r.err, !.ret = r.ret]
    /\ steps' = steps + 1

NextCheck ==
    \/ \E results \in ResultLists, has_problems \in BOOLEAN : CallCheck(results, has_problems)
    \/ \E results \in ResultLists, has_problems \in BOOLEAN, env \in FileEnvs,
          order \in Orders, copies \in CopyResults :
          CallMigrate(results, has_problems, env, order, copies)

SpecCheck == InitCheck /\ [][NextCheck]_vars

(***************************************************************************)
(* The operations that write corosync.conf, statement by statement, and a  *)
(* reader of the path.                                                     *)
(***************************************************************************)
InitFiles ==
    /\ dom = EmptyDict
    /\ last = NoCall
    /\ steps = 0
    /\ fs \in FileSystems
    /\ run = Idle

\* ConfParser.save or LinkManager.write_config_file of the tree in memory
CallSave(tree) ==
    /\ run = Idle
    /\ steps < MaxSteps
    /\ dom' = tree
    /\ run' = [Idle EXCEPT !.op = "save", !.at = "tmp", !.start = fs]
    /\ steps' = steps + 1
    /\ UNCHANGED <<fs, last>>

CallMigrateConf(env, order, copies) ==
    /\ run = Idle
    /\ steps < MaxSteps
    /\ run' = StartMigrate(fs, env, order, copies)
    /\ steps' = steps + 1
    /\ UNCHANGED <<dom, fs, last>>

CallPull(from_node) ==
    /\ run = Idle
    /\ steps < MaxSteps
    /\ run' = [Idle EXCEPT !.op = "pull_configuration", !.at = "scp", !.start = fs,
                           !.from = from_node]
    /\ steps' = steps + 1
    /\ UNCHANGED <<dom, fs, last>>

Step ==
    /\ run # Idle
    /\ ~Ended(run)
    /\ \E r \in {step(St(fs, dom, run))} :
          /\ fs' = r.fs
          /\ dom' = r.dom
          /\ run' = r.run
    /\ UNCHANGED <<last, steps>>

\* the operation returns or raises
Return ==
    /\ Ended(run)
    /\ last' = [NoCall EXCEPT !.op = run.op, !.err = run.err]
    /\ run' = Idle
    /\ UNCHANGED <<dom, fs, steps>>

\* another process reads the path
ReadConf ==
    /\ last' = [NoCall EXCEPT !.op = "read",
                              !.ret = IF Conf \in DOMAIN fs THEN fs[Conf].data ELSE Absent]
    /\ UNCHANGED <<dom, fs, run, steps>>

NextFiles ==
    \/ \E tree \in SaveTrees : CallSave(tree)
    \/ \E env \in FileEnvs, order \in Orders, copies \in CopyResults :
          CallMigrateConf(env, order, copies)
    \/ \E from_node \in {"beta", "gamma"} : CallPull(from_node)
    \/ Step
    \/ Return
    \/ ReadConf

SpecFiles == InitFiles /\ [][NextFiles]_vars


(***************************************************************************)
(* Properties of the pre-migration check.                                  *)
(***************************************************************************)
\* the member is unreachable, ends with a status above 1, or reports pass false
PeerFailed(result) ==
    \/ result.kind = "SSHError"
    \/ result.kind = "ProcessResult" /\ result.returncode > 1
    \/ /\ result.kind = "ProcessResult"
       /\ json_loads(result.stdout).err = "ok"
       /\ ~get_pass(json_loads(result.stdout).value)

\* C30: whenever a member's check failed, whatever the other members answer and
\* wherever the member stands in the order of the results, check returns a
\* status other than 0 and migrate does not begin to rewrite the file.
C30_FailedPeerFailsCheck ==
    ( /\ last.op \in {"check", "migrate"}
      /\ \E i \in 1 .. Len(last.env.results) : PeerFailed(last.env.results[i]) )
    => (last.ret # 0 /\ run = Idle)


(***************************************************************************)
(* Properties of the operations that write the file.                       *)
(***************************************************************************)
\* the data of the path at the call, and the data the operation is writing
OldData == IF Conf \in DOMAIN run.start THEN run.start[Conf].data ELSE Absent

NewData == IF run.op = "pull_configuration" THEN run.data ELSE dom

\* C26: while an operation writes the configuration file, another process that
\* reads the path reads the whole old text or the whole new text, never a
\* text that is neither.
C26_ReaderSeesWholeFile ==
    (run.op # "none" /\ last.op = "read") => last.ret \in {OldData, NewData}


Migrating == run.op = "migrate_corosync_conf"

\* the positions at which migrate_corosync_conf has written nothing yet
BeforeBackup == {"open", "impl", "copy", "raised"}

PeerSet == {Peers[i] : i \in 1 .. Len(Peers)}

\* the file of a member is not the one it had at the call
Distributed(h) ==
    IF On(h) \in DOMAIN run.start
    THEN fs[On(h)] # run.start[On(h)]
    ELSE On(h) \in DOMAIN fs

\* C25: migrate_corosync_conf changes no file until the migration in memory has
\* returned, and none at all when it raises; from the backup on,
\* corosync.conf.bak holds the text the file had at the call and the file
\* itself is untouched until the rename; a member's file changes only after
\* the local file holds the migrated tree; and at the end no exception was
\* raised, every member whose copy failed is in the log, once, and every other
\* member has the migrated file.
C25_MigrationOrder ==
    Migrating =>
      /\ run.at \in BeforeBackup => fs = run.start
      /\ run.at \notin BeforeBackup =>
            (Bak \in DOMAIN fs /\ fs[Bak].data = OldData /\ fs[Bak].mode = run.start[Conf].mode)
      /\ run.at \in WriteAts => fs[Conf] = run.start[Conf]
      /\ (\E h \in PeerSet : Distributed(h)) =>
            (run.at \in {"results", "done"} /\ fs[Conf].data = dom /\ Tmp \notin DOMAIN fs)
      /\ run.at \in {"pcopy", "results", "done"} =>
            (fs[Conf].data = dom /\ fs[Conf].mode = "0644" /\ fs[Conf].synced)
      /\ run.at = "done" =>
            /\ run.err = "ok"
            /\ \A h \in PeerSet :
                  /\ run.copies[h] = "PRunError" =>
                        Cardinality({k \in 1 .. Len(run.log) : run.log[k] = h}) = 1
                  /\ run.copies[h] = "None" =>
                        /\ \A k \in 1 .. Len(run.log) : run.log[k] # h
                        /\ On(h) \in DOMAIN fs /\ fs[On(h)].data = dom

\* the migration rewrote the tree, the copy to the first member failed and was
\* logged, and the second member has the new file
C25_Witness ==
    /\ Migrating /\ run.at = "done"
    /\ dom # OldData
    /\ fs[Conf].data = dom /\ fs[Bak].data = OldData
    /\ run.copies["beta"] = "PRunError" /\ run.log = <<"beta">>
    /\ run.copies["gamma"] = "None" /\ fs[On("gamma")].data = dom

\* the migration raised after it had changed the tree in memory
C25_Witness_Raised ==
    /\ Migrating /\ run.at = "raised"
    /\ dom # OldData
    /\ fs = run.start

====
